---- MODULE Spec2Model ----
(***************************************************************************)
(* Model resolution and streaming completion engine of obsidian-gemini     *)
(* (Groq build): ModelDiscoveryService, the GEMINI_MODELS registry,        *)
(* ModelManager and GeminiClient (generateModelResponse and                 *)
(* generateStreamingResponse), the web tools (deep_research,               *)
(* google_search, web_fetch) and the MCP servers section of the settings   *)
(* tab.                                                                    *)
(*                                                                         *)
(* The specifications share the variables:                                 *)
(*   SpecDiscovery  discoverModels calls, the clock, the cache             *)
(*   SpecSequence   two discoverModels calls, one after the other          *)
(*   SpecRestart    discovery, a restart, loadCache, the next call         *)
(*   SpecManager    ModelManager operations over discovery                 *)
(*   SpecStatus     getDiscoveryStatus over discovery                      *)
(*   SpecFilter     filterModelsForVersion over drawn model lists          *)
(*   SpecMerge      the merge of a dynamic list with the static models     *)
(*   SpecRegistry   the registry functions of models.ts                    *)
(*   SpecStream     one streaming completion call                          *)
(*   SpecStreamFair SpecStream with the read loop's steps weakly fair      *)
(*   SpecClient     one completion call, streaming or not                  *)
(*   SpecOverlap    overlapping discoverModels calls and a settings save   *)
(*   SpecTools      one execute call of a web tool                         *)
(*   SpecMcp        the Add Server, Edit and Delete handlers               *)
(* Each keeps the other components' variables at their initial values.     *)
(***************************************************************************)
EXTENDS Integers, Sequences, FiniteSets, TLC

(***************************************************************************)
(* Bounds of the model.                                                    *)
(***************************************************************************)
\* Date.now() runs from 0 to MaxTime; one tick is 12 hours.
MaxTime == 3
\* Calls a caller starts in one behaviour.
MaxCalls == 3
\* Segments one reader.read() delivers at most, unless it delivers all that
\* is left of the body.
MaxRead == 3
\* Models in a list handed to filterModelsForVersion.
MaxList == 3

\* CACHE_DURATION = 24 * 60 * 60 * 1000 ms, i.e. two 12-hour ticks.
CACHE_DURATION == 2

\* The async callers whose calls may overlap, and the one of the sequential
\* specifications.
Callers == {"c1", "c2"}
Main == "c1"

(***************************************************************************)
(* Strings.  A model id is a TLA+ string (compared by equality, as Set.has *)
(* and === do); Chars gives its characters for includes / toLowerCase.     *)
(***************************************************************************)
Chars(id) ==
    CASE id = "compound" -> <<"c", "o", "m", "p", "o", "u", "n", "d">>
      [] id = "compound-mini" -> <<"c", "o", "m", "p", "o", "u", "n", "d", "-", "m", "i", "n", "i">>
      [] id = "llama-3.3-70b-versatile" -> <<"l", "l", "a", "m", "a", "-", "3", ".", "3", "-", "7", "0", "b", "-", "v", "e", "r", "s", "a", "t", "i", "l", "e">>
      [] id = "openai/gpt-oss-120b" -> <<"o", "p", "e", "n", "a", "i", "/", "g", "p", "t", "-", "o", "s", "s", "-", "1", "2", "0", "b">>
      [] id = "moonshotai/kimi-k2-instruct-0905" -> <<"m", "o", "o", "n", "s", "h", "o", "t", "a", "i", "/", "k", "i", "m", "i", "-", "k", "2", "-", "i", "n", "s", "t", "r", "u", "c", "t", "-", "0", "9", "0", "5">>
      [] id = "deepseek-r1-distill-llama-70b" -> <<"d", "e", "e", "p", "s", "e", "e", "k", "-", "r", "1", "-", "d", "i", "s", "t", "i", "l", "l", "-", "l", "l", "a", "m", "a", "-", "7", "0", "b">>
      [] id = "llama-3.1-8b-instant" -> <<"l", "l", "a", "m", "a", "-", "3", ".", "1", "-", "8", "b", "-", "i", "n", "s", "t", "a", "n", "t">>
      [] id = "whisper-large-v3" -> <<"w", "h", "i", "s", "p", "e", "r", "-", "l", "a", "r", "g", "e", "-", "v", "3">>
      [] id = "playai-tts" -> <<"p", "l", "a", "y", "a", "i", "-", "t", "t", "s">>
      [] id = "llama-3.2-11b-vision-preview" -> <<"l", "l", "a", "m", "a", "-", "3", ".", "2", "-", "1", "1", "b", "-", "v", "i", "s", "i", "o", "n", "-", "p", "r", "e", "v", "i", "e", "w">>
      [] id = "Llama-Guard-4-12B" -> <<"L", "l", "a", "m", "a", "-", "G", "u", "a", "r", "d", "-", "4", "-", "1", "2", "B">>
      [] id = "flux-dev" -> <<"f", "l", "u", "x", "-", "d", "e", "v">>
      [] id = "llava-vision" -> <<"l", "l", "a", "v", "a", "-", "v", "i", "s", "i", "o", "n">>
      [] id = "text-embedding-3-small" -> <<"t", "e", "x", "t", "-", "e", "m", "b", "e", "d", "d", "i", "n", "g", "-", "3", "-", "s", "m", "a", "l", "l">>
      [] id = "Llama-Guard-3-11B-Vision" -> <<"L", "l", "a", "m", "a", "-", "G", "u", "a", "r", "d", "-", "3", "-", "1", "1", "B", "-", "V", "i", "s", "i", "o", "n">>
      [] id = "llama" -> <<"l", "l", "a", "m", "a">>
      [] id = "a" -> <<"a">>
      [] id = "b" -> <<"b">>
      [] id = "x" -> <<"x">>
      [] id = "" -> <<>>
      [] id = "embedding" -> <<"e", "m", "b", "e", "d", "d", "i", "n", "g">>
      [] id = "whisper" -> <<"w", "h", "i", "s", "p", "e", "r">>
      [] id = "tts" -> <<"t", "t", "s">>
      [] id = "transcribe" -> <<"t", "r", "a", "n", "s", "c", "r", "i", "b", "e">>
      [] id = "moderation" -> <<"m", "o", "d", "e", "r", "a", "t", "i", "o", "n">>
      [] id = "guard" -> <<"g", "u", "a", "r", "d">>
      [] id = "speech" -> <<"s", "p", "e", "e", "c", "h">>
      [] id = "image" -> <<"i", "m", "a", "g", "e">>
      [] id = "vision" -> <<"v", "i", "s", "i", "o", "n">>
      [] id = "flux" -> <<"f", "l", "u", "x">>
      [] id = "vision-preview" -> <<"v", "i", "s", "i", "o", "n", "-", "p", "r", "e", "v", "i", "e", "w">>
      [] id = "preview" -> <<"p", "r", "e", "v", "i", "e", "w">>

\* String.prototype.toLowerCase on one character (the upper-case letters
\* that occur in the ids above).
LowerChar(c) ==
    CASE c = "L" -> "l"
      [] c = "G" -> "g"
      [] c = "B" -> "b"
      [] c = "V" -> "v"
      [] OTHER -> c

\* id.toLowerCase(), as characters.
ToLowerCase(s) == [i \in 1..Len(s) |-> LowerChar(s[i])]

\* String.prototype.includes on character sequences.
Includes(s, sub) ==
    \E i \in 1..(Len(s) - Len(sub) + 1) : SubSeq(s, i, i + Len(sub) - 1) = sub

(***************************************************************************)
(* ModelDiscoveryService: data.                                            *)
(***************************************************************************)
\* this.cache = null
NoCache == [null |-> TRUE]

\* The object literal built for each catalog entry by fetchModelsFromAPI.
GoogleModel(raw) ==
    [name |-> raw.id, displayName |-> raw.id,
     description |-> IF raw.owned_by # "" THEN raw.owned_by ELSE "Groq model",
     version |-> "latest", inputTokenLimit |-> 131072, outputTokenLimit |-> 8192,
     maxTemperature |-> 2, topP |-> 1]

\* isGenerativeModel(model)
IsGenerativeModel(raw) ==
    LET id == ToLowerCase(Chars(raw.id))
    IN  /\ id # <<>>
        /\ ~Includes(id, Chars("whisper"))
        /\ ~Includes(id, Chars("tts"))
        /\ ~Includes(id, Chars("vision-preview"))

\* filter(...).map(...) of fetchModelsFromAPI over response.data
RECURSIVE MapCatalog(_)
MapCatalog(data) ==
    IF data = <<>> THEN <<>>
    ELSE (IF IsGenerativeModel(Head(data)) THEN <<GoogleModel(Head(data))>> ELSE <<>>)
         \o MapCatalog(Tail(data))

Raw(id) == [id |-> id, owned_by |-> "groq"]

\* Bodies the catalog endpoint answers with (data arrays of {id, owned_by}).
CatalogTest  == <<Raw("compound"), Raw("whisper-large-v3")>>
CatalogGroq  == <<Raw("llama-3.1-8b-instant"), Raw("Llama-Guard-4-12B"), Raw("playai-tts"),
                  Raw("llama-3.2-11b-vision-preview"), Raw("compound")>>
CatalogNoChat == <<Raw("Llama-Guard-4-12B"), Raw("flux-dev"), Raw("")>>
Catalogs == {CatalogTest, CatalogGroq, CatalogNoChat}

\* How a catalog request can fail: fetch rejects, or the status is not 2xx.
FetchFailures == {"transport", "non2xx"}

ErrorMessage(kind) ==
    CASE kind = "nokey"     -> "API key not configured"
      [] kind = "non2xx"    -> "API request failed: 500 Internal Server Error"
      [] kind = "transport" -> "Failed to fetch"

\* isCacheValid with the window one tick too short.
IsCacheValid_Short(c, t) == c # NoCache /\ t - c.lastUpdated < CACHE_DURATION - 1

\* isCacheValid(), given this.cache and Date.now()
IsCacheValid(c, t) == c # NoCache /\ t - c.lastUpdated < CACHE_DURATION

VARIABLES
    now,         \* Date.now(), in ticks
    apiKey,      \* plugin.settings.apiKey is set
    cache,       \* ModelDiscoveryService.cache
    durable,     \* the plugin's persisted data blob (loadData / saveData)
    loader,      \* loadCache() between its loadData and its assignment
    fetchCount,  \* catalog requests issued so far
    procs,       \* each caller's operation in flight and its last result
    enabled,     \* plugin.settings.modelDiscovery?.enabled
    registry,    \* GEMINI_MODELS
    settings,    \* plugin.settings: the model names the user holds
    lastCall,    \* the last call of a registry function and what it returned
    sPc,             \* where the streaming call stands
    config,          \* GeminiClient.config (the configured model)
    request,         \* the request of the streaming call
    payload,         \* what buildRequestPayload returned
    httpAttempts,    \* POST /chat/completions requests issued
    response,        \* streamResponse
    wire,            \* the part of the response body not yet read
    cancelled,       \* let cancelled
    markdown,        \* let markdown
    buffer,          \* let buffer
    lines,           \* lines of the current read still to be processed
    toolCallBuffer,  \* the Map toolCallBuffer, in insertion order
    toolCalls,       \* let toolCalls
    chunks,          \* the texts handed to onChunk, in call order
    completion       \* the promise `complete`

discVars == <<now, apiKey, cache, durable, loader, fetchCount, procs>>
mgrVars == <<enabled, registry, settings, lastCall>>
streamVars == <<sPc, config, request, payload, httpAttempts, response, wire, cancelled,
                markdown, buffer, lines, toolCallBuffer, toolCalls, chunks, completion>>
vars == <<discVars, mgrVars, streamVars>>

\* loadData() resolves to null when nothing was ever saved.
NoData == [null |-> TRUE]

\* (await this.plugin.loadData()) || {} : the blob as a function of its keys.
OrEmpty(d) == IF d = NoData THEN [k \in {} |-> NoCache] ELSE d

\* data.modelDiscoveryCache = result
WithKey(d, key, v) == [k \in (DOMAIN d) \cup {key} |-> IF k = key THEN v ELSE d[k]]

\* A loader that looks under another key of the blob.
CacheOf_OtherKey(d) == IF "modelCache" \in DOMAIN d THEN d["modelCache"] ELSE NoCache

\* data.modelDiscoveryCache || null
CacheOf(d) == IF "modelDiscoveryCache" \in DOMAIN d THEN d["modelDiscoveryCache"] ELSE NoCache

IdleProc ==
    [n |-> 0, at |-> 0, op |-> "none", pc |-> "idle", force |-> FALSE, preserve |-> FALSE,
     outcome |-> "none",
     threw |-> FALSE, result |-> NoCache, data |-> NoData, disc |-> NoCache,
     avail |-> <<>>, ret |-> NoCache,
     \* refreshModels: its try block is running; what its updateModels returned
     refresh |-> FALSE, result1 |-> NoCache]

\* A caller starts its next call when its previous one has settled.
CanCall(p) == procs[p].pc \in {"idle", "done"} /\ ~procs[p].refresh /\ procs[p].n < MaxCalls

\* The record of caller p's next call, issued at time `now`.
NewCall(p, op, force, preserve) ==
    [IdleProc EXCEPT !.n = procs[p].n + 1, !.at = now, !.op = op, !.force = force,
                     !.preserve = preserve]

(***************************************************************************)
(* ModelDiscoveryService: discoverModels.  Every await is a step boundary. *)
(***************************************************************************)
\* discoverModels hands `r` back to whoever awaits it: the caller itself for
\* a direct call (the promise settles), a ModelManager method otherwise.
Returned(rec, r, outcome) ==
    [rec EXCEPT !.pc = IF rec.op = "discoverModels" THEN "done" ELSE "discovered",
                !.disc = r,
                !.ret = IF rec.op = "discoverModels" THEN r ELSE @,
                !.outcome = outcome]

\* discoverModels without its catch block: the error leaves the call.
DiscoverCatch_Rethrow(rec, c, t, kind) ==
    [rec EXCEPT !.pc = "done", !.threw = TRUE, !.outcome = kind]

\* The catch block: this.cache || { models: [], lastUpdated, success: false, error }
DiscoverCatch(rec, c, t, kind) ==
    LET result == [models |-> <<>>, lastUpdated |-> t, success |-> FALSE,
                   error |-> ErrorMessage(kind)]
    IN  Returned(rec, IF c # NoCache THEN c ELSE result, kind)

\* A cache guard that forgets forceRefresh.
DiscoverModels_IgnoresForce(p, rec) ==
    IF cache # NoCache /\ IsCacheValid(cache, now)
    THEN /\ procs' = [procs EXCEPT ![p] = Returned(rec, cache, "cached")]
         /\ UNCHANGED fetchCount
    ELSE IF ~apiKey
         THEN /\ procs' = [procs EXCEPT ![p] = [rec EXCEPT !.pc = "keyError"]]
              /\ UNCHANGED fetchCount
         ELSE /\ procs' = [procs EXCEPT ![p] = [rec EXCEPT !.pc = "fetching"]]
              /\ fetchCount' = fetchCount + 1

\* discoverModels(forceRefresh) up to its first await: the cache guard, then
\* fetchModelsFromAPI up to its fetch (or its throw when no key is set).
DiscoverModels(p, rec) ==
    IF ~rec.force /\ cache # NoCache /\ IsCacheValid(cache, now)
    THEN /\ procs' = [procs EXCEPT ![p] = Returned(rec, cache, "cached")]
         /\ UNCHANGED fetchCount
    ELSE IF ~apiKey
         THEN /\ procs' = [procs EXCEPT ![p] = [rec EXCEPT !.pc = "keyError"]]
              /\ UNCHANGED fetchCount
         ELSE /\ procs' = [procs EXCEPT ![p] = [rec EXCEPT !.pc = "fetching"]]
              /\ fetchCount' = fetchCount + 1

\* A caller invokes discoveryService.discoverModels(force).
CallDiscoverModels(p, force) ==
    /\ CanCall(p)
    /\ DiscoverModels(p, NewCall(p, "discoverModels", force, FALSE))
    /\ UNCHANGED <<now, apiKey, cache, durable, loader, mgrVars, streamVars>>

\* The rejected promise of fetchModelsFromAPI (no API key) reaches the catch.
KeyErrorCaught(p) ==
    /\ procs[p].pc = "keyError"
    /\ procs' = [procs EXCEPT ![p] = DiscoverCatch(procs[p], cache, now, "nokey")]
    /\ UNCHANGED <<now, apiKey, cache, durable, loader, fetchCount, mgrVars, streamVars>>

\* fetch rejects, or response.ok is false: the throw reaches the catch.
FetchFails(p, kind) ==
    /\ procs[p].pc = "fetching"
    /\ procs' = [procs EXCEPT ![p] = DiscoverCatch(procs[p], cache, now, kind)]
    /\ UNCHANGED <<now, apiKey, cache, durable, loader, fetchCount, mgrVars, streamVars>>

\* The catalog arrives but this.cache is not assigned.
FetchSucceeds_KeepsCache(p, catalog) ==
    /\ procs[p].pc = "fetching"
    /\ LET result == [models |-> MapCatalog(catalog), lastUpdated |-> now, success |-> TRUE]
       IN  procs' = [procs EXCEPT ![p] = [@ EXCEPT !.pc = "persistLoad", !.result = result]]
    /\ UNCHANGED <<now, apiKey, cache, durable, loader, fetchCount, mgrVars, streamVars>>

\* The catalog arrives: build the result, set this.cache, start persistCache.
FetchSucceeds(p, catalog) ==
    /\ procs[p].pc = "fetching"
    /\ LET result == [models |-> MapCatalog(catalog), lastUpdated |-> now, success |-> TRUE]
       IN  /\ cache' = result
           /\ procs' = [procs EXCEPT ![p] = [@ EXCEPT !.pc = "persistLoad", !.result = result]]
    /\ UNCHANGED <<now, apiKey, durable, loader, fetchCount, mgrVars, streamVars>>

\* persistCache: const data = (await this.plugin.loadData()) || {}
PersistLoad(p) ==
    /\ procs[p].pc = "persistLoad"
    /\ procs' = [procs EXCEPT ![p] = [@ EXCEPT !.pc = "persistSave", !.data = OrEmpty(durable)]]
    /\ UNCHANGED <<now, apiKey, cache, durable, loader, fetchCount, mgrVars, streamVars>>

\* persistCache: data.modelDiscoveryCache = result; await saveData(data); return result
PersistSave(p) ==
    /\ procs[p].pc = "persistSave"
    /\ durable' = WithKey(procs[p].data, "modelDiscoveryCache", procs[p].result)
    /\ procs' = [procs EXCEPT ![p] = Returned([@ EXCEPT !.data = NoData], @.result, "fetched")]
    /\ UNCHANGED <<now, apiKey, cache, loader, fetchCount, mgrVars, streamVars>>

\* loadCache: const data = (await this.plugin.loadData()) || {}
LoadCacheRead ==
    /\ loader = NoData
    /\ loader' = [data |-> OrEmpty(durable)]
    /\ UNCHANGED <<now, apiKey, cache, durable, fetchCount, procs, mgrVars, streamVars>>

\* loadCache: this.cache = data.modelDiscoveryCache || null
LoadCacheAssign ==
    /\ loader # NoData
    /\ cache' = CacheOf(loader.data)
    /\ loader' = NoData
    /\ UNCHANGED <<now, apiKey, durable, fetchCount, procs, mgrVars, streamVars>>

\* A clearCache that also deletes the persisted record.
ClearCache_AlsoDurable ==
    /\ cache # NoCache
    /\ cache' = NoCache
    /\ durable' = NoData
    /\ UNCHANGED <<now, apiKey, loader, fetchCount, procs, mgrVars, streamVars>>

\* clearCache()
ClearCache ==
    /\ cache # NoCache
    /\ cache' = NoCache
    /\ UNCHANGED <<now, apiKey, durable, loader, fetchCount, procs, mgrVars, streamVars>>

\* The user sets or removes the API key in the settings.
SetApiKey ==
    /\ apiKey' = ~apiKey
    /\ UNCHANGED <<now, cache, durable, loader, fetchCount, procs, mgrVars, streamVars>>

\* Time passes.
Tick ==
    /\ now < MaxTime
    /\ now' = now + 1
    /\ UNCHANGED <<apiKey, cache, durable, loader, fetchCount, procs, mgrVars, streamVars>>

(***************************************************************************)
(* The registry (models.ts).                                               *)
(***************************************************************************)
Model(value, label, roles) ==
    [value |-> value, label |-> label, defaultForRoles |-> roles,
     supportsImageGeneration |-> FALSE]

DEFAULT_GEMINI_MODELS ==
    << Model("compound", "Compound", {"chat", "rewrite"}),
       Model("compound-mini", "Compound Mini", {"summary"}),
       Model("llama-3.3-70b-versatile", "Llama 3.3 70B Versatile", {"completions"}),
       Model("openai/gpt-oss-120b", "GPT OSS 120B", {}),
       Model("moonshotai/kimi-k2-instruct-0905", "Kimi K2 Instruct 0905", {}),
       Model("deepseek-r1-distill-llama-70b", "DeepSeek R1 Distill Llama 70B", {}),
       Model("llama-3.1-8b-instant", "Llama 3.1 8B Instant", {}) >>

NoSettings == [chatModelName |-> "", summaryModelName |-> "", completionsModelName |-> "",
               imageModelName |-> ""]
NoCall == [fn |-> "none"]

\* ModelManager.staticModels = [...DEFAULT_GEMINI_MODELS]
StaticModels == DEFAULT_GEMINI_MODELS

\* Arrays handed to setGeminiModels: a two-model registry, one in which two
\* models claim the chat role and the first model claims none, the list of
\* the role-default tests, and the empty list.
RegAB  == << Model("a", "A", {"chat"}), Model("b", "B", {"summary"}) >>
RegDup == << Model("x", "X", {}), Model("a", "A", {"chat"}), Model("b", "B", {"chat", "summary"}) >>
RegTest == << Model("compound", "Compound", {"chat"}),
              Model("compound-mini", "Compound Mini", {"summary"}),
              Model("llama", "Llama", {"completions"}) >>
RegOne == << Model("b", "B", {"summary"}) >>
TestRegistries == {RegAB, RegDup, RegTest, << >>}
DirectRegistries == TestRegistries \cup {StaticModels, RegOne}

ModelRoles == {"chat", "summary", "completions", "rewrite", "image"}

\* Model names a user may hold in plugin.settings.
SettingsChoices ==
    { [chatModelName |-> "x", summaryModelName |-> "b", completionsModelName |-> "",
       imageModelName |-> ""],
      [chatModelName |-> "compound", summaryModelName |-> "compound-mini",
       completionsModelName |-> "llama-3.3-70b-versatile", imageModelName |-> "flux-dev"] }


\* Settings objects handed to getUpdatedModelSettings directly: the above,
\* the empty ones, and one whose image model may be registered.
DirectSettings ==
    SettingsChoices \cup
    { NoSettings,
      [chatModelName |-> "a", summaryModelName |-> "", completionsModelName |-> "x",
       imageModelName |-> "b"] }

Values(models) == {models[i].value : i \in DOMAIN models}

(***************************************************************************)
(* models.ts: the registry functions.                                      *)
(***************************************************************************)
\* A setGeminiModels that loses the first model.
SetGeminiModels_LosesFirst(newModels, isRegistryItself) ==
    IF isRegistryItself \/ newModels = << >> THEN << >> ELSE Tail(newModels)

\* setGeminiModels(newModels): GEMINI_MODELS.length = 0, then
\* GEMINI_MODELS.push(...newModels).  When newModels is the GEMINI_MODELS
\* array itself, the spread reads the array just emptied.
SetGeminiModels(newModels, isRegistryItself) ==
    IF isRegistryItself THEN << >> ELSE newModels

\* GEMINI_MODELS.find((m) => m.defaultForRoles?.includes(role))
RECURSIVE Find(_, _)
Find(models, role) ==
    IF models = << >> THEN << >>
    ELSE IF role \in Head(models).defaultForRoles THEN <<Head(models)>>
    ELSE Find(Tail(models), role)

\* getDefaultModelForRole with find replaced by the last claimant.
GetDefaultModelForRole_Last(reg, role) ==
    LET claim == {i \in DOMAIN reg : role \in reg[i].defaultForRoles}
    IN  IF claim # {} THEN [threw |-> FALSE, value |-> reg[CHOOSE i \in claim : \A j \in claim : j <= i].value]
        ELSE IF Len(reg) > 0 THEN [threw |-> FALSE, value |-> reg[1].value]
        ELSE [threw |-> TRUE, error |-> "CRITICAL: GEMINI_MODELS array is empty. Please configure available models."]

\* getDefaultModelForRole(role) on the registry reg
GetDefaultModelForRole(reg, role) ==
    LET modelForRole == Find(reg, role)
    IN  IF modelForRole # << >> THEN [threw |-> FALSE, value |-> modelForRole[1].value]
        ELSE IF Len(reg) > 0 THEN [threw |-> FALSE, value |-> reg[1].value]
        ELSE [threw |-> TRUE, error |-> "CRITICAL: GEMINI_MODELS array is empty. Please configure available models."]

\* A needsUpdate that lets the empty name pass.
NeedsUpdate_NonEmptyOnly(reg, modelName) == modelName # "" /\ modelName \notin Values(reg)

\* needsUpdate(modelName)
NeedsUpdate(reg, modelName) == modelName = "" \/ modelName \notin Values(reg)

\* One of the three `if (needsUpdate(newSettings.<key>))` blocks, applied to
\* the running state acc of getUpdatedModelSettings.
UpdateSetting(reg, acc, key, title, role) ==
    IF acc.threw \/ ~NeedsUpdate(reg, acc.updatedSettings[key]) THEN acc
    ELSE LET next == GetDefaultModelForRole(reg, role)
         IN  IF next.threw THEN [threw |-> TRUE, error |-> next.error]
             ELSE [acc EXCEPT
                     !.changedSettingsInfo = Append(@, title \o " model: '" \o acc.updatedSettings[key]
                                                       \o "' -> '" \o next.value \o "' (model update)"),
                     !.updatedSettings[key] = next.value,
                     !.settingsChanged = TRUE]

\* The imageModelName block.
ClearImageSetting(reg, acc) ==
    IF acc.threw THEN acc
    ELSE IF acc.updatedSettings.imageModelName # ""
            /\ NeedsUpdate(reg, acc.updatedSettings.imageModelName)
    THEN [acc EXCEPT
            !.changedSettingsInfo = Append(@, "Image model '" \o acc.updatedSettings.imageModelName
                                              \o "' is not available on Groq and was cleared."),
            !.updatedSettings.imageModelName = "",
            !.settingsChanged = TRUE]
    ELSE acc

\* getUpdatedModelSettings that never touches the summary setting.
GetUpdatedModelSettings_SkipSummary(reg, currentSettings) ==
    LET a0 == [threw |-> FALSE, updatedSettings |-> currentSettings, settingsChanged |-> FALSE,
               changedSettingsInfo |-> << >>]
        a1 == UpdateSetting(reg, a0, "chatModelName", "Chat", "chat")
        a3 == UpdateSetting(reg, a1, "completionsModelName", "Completions", "completions")
    IN  ClearImageSetting(reg, a3)

\* getUpdatedModelSettings(currentSettings) on the registry reg
GetUpdatedModelSettings(reg, currentSettings) ==
    LET a0 == [threw |-> FALSE, updatedSettings |-> currentSettings, settingsChanged |-> FALSE,
               changedSettingsInfo |-> << >>]
        a1 == UpdateSetting(reg, a0, "chatModelName", "Chat", "chat")
        a2 == UpdateSetting(reg, a1, "summaryModelName", "Summary", "summary")
        a3 == UpdateSetting(reg, a2, "completionsModelName", "Completions", "completions")
    IN  ClearImageSetting(reg, a3)

(***************************************************************************)
(* ModelMapper.  Its source is not part of the repository snapshot; the    *)
(* three transforms follow the design document, section 4.2.               *)
(***************************************************************************)
\* mapToGeminiModels: one NormalizedModel per provider model, same id.
MapToGeminiModels(models) ==
    [i \in 1..Len(models) |-> Model(models[i].name, models[i].displayName, {})]

\* Stable / GA models are those whose id carries no preview marker.
IsStableModel(m) == ~Includes(ToLowerCase(Chars(m.value)), Chars("preview"))

\* The family prefix: the id up to its first separator.
Family(m) ==
    LET cs == Chars(m.value)
        seps == {i \in 1..Len(cs) : cs[i] \in {"-", "/"}}
    IN  IF seps = {} THEN cs
        ELSE SubSeq(cs, 1, (CHOOSE i \in seps : \A j \in seps : i <= j) - 1)

\* Group a list by family, families in the order of their first member,
\* members in their original order.
RECURSIVE GroupByFamily(_)
GroupByFamily(models) ==
    IF models = << >> THEN << >>
    ELSE LET f == Family(Head(models))
         IN  SelectSeq(models, LAMBDA m : Family(m) = f)
             \o GroupByFamily(SelectSeq(models, LAMBDA m : Family(m) # f))

\* sortModelsByPreference: stable first, then grouped by family; ties keep
\* the discovery order.
SortModelsByPreference(models) ==
    GroupByFamily(SelectSeq(models, IsStableModel))
    \o GroupByFamily(SelectSeq(models, LAMBDA m : ~IsStableModel(m)))

\* mergeWithExistingModels: the dynamic list, then every static model whose
\* id the dynamic list lacks.
MergeWithExistingModels(dynamic, static) ==
    dynamic \o SelectSeq(static, LAMBDA m : m.value \notin Values(dynamic))

(***************************************************************************)
(* ModelManager.                                                           *)
(***************************************************************************)
Denylist == {"embedding", "whisper", "tts", "transcribe", "moderation", "guard", "speech"}
ImageMarkers == {"image", "vision", "flux"}

\* A denylist test that forgets toLowerCase.
IsExcluded_CaseSensitive(model) ==
    \E w \in Denylist : Includes(Chars(model.value), Chars(w))

\* The first test of the filter callback: a specialised non-chat family.
IsExcluded(model) ==
    \E w \in Denylist : Includes(ToLowerCase(Chars(model.value)), Chars(w))

\* isImageModel by the flag alone.
IsImageModel_FlagOnly(model) == model.supportsImageGeneration

\* isImageModel
IsImageModel(model) ==
    \/ model.supportsImageGeneration
    \/ \E w \in ImageMarkers : Includes(ToLowerCase(Chars(model.value)), Chars(w))

\* filterModelsForVersion that keeps the image models in text mode.
FilterModelsForVersion_Inverted(models, imageModelsOnly) ==
    SelectSeq(models, LAMBDA m : ~IsExcluded(m) /\ (IsImageModel(m) <=> ~imageModelsOnly))

\* filterModelsForVersion(models, imageModelsOnly)
FilterModelsForVersion(models, imageModelsOnly) ==
    SelectSeq(models, LAMBDA m : ~IsExcluded(m) /\ (IsImageModel(m) <=> imageModelsOnly))

\* this.filterModelsForVersion(ModelManager.staticModels, false)
StaticTextModels == FilterModelsForVersion(StaticModels, FALSE)

\* getAvailableModels without the static fallback: whatever discovery gave.
AvailableFrom_NoFallback(discovery, preserveUserCustomizations) ==
    FilterModelsForVersion(SortModelsByPreference(MapToGeminiModels(discovery.models)), FALSE)

\* getAvailableModels after `await discoverModels(...)`: the dynamic list
\* when discovery succeeded with at least one model, else the static one.
AvailableFrom(discovery, preserveUserCustomizations) ==
    IF discovery.success /\ Len(discovery.models) > 0
    THEN LET sorted == SortModelsByPreference(MapToGeminiModels(discovery.models))
             merged == IF preserveUserCustomizations
                       THEN MergeWithExistingModels(sorted, StaticModels)
                       ELSE sorted
         IN  FilterModelsForVersion(merged, FALSE)
    ELSE StaticTextModels

\* A change detection that compares the ids position by position.
DetectModelChanges_Ordered(current, previous) ==
    IF Len(current) # Len(previous) THEN TRUE
    ELSE \E i \in 1..Len(current) : current[i].value # previous[i].value

\* detectModelChanges(current, previous)
DetectModelChanges(current, previous) ==
    IF Len(current) # Len(previous) THEN TRUE
    ELSE ~(/\ Cardinality(Values(current)) = Cardinality(Values(previous))
           /\ \A v \in Values(current) : v \in Values(previous))

\* A manager that discovers whatever the enabled flag says.
CallManager_AlwaysDiscovers(p, op, force, preserve) ==
    /\ CanCall(p)
    /\ op \in {"getAvailableModels", "updateModels"}
    /\ DiscoverModels(p, NewCall(p, op, force, preserve))
    /\ UNCHANGED <<now, apiKey, cache, durable, loader, mgrVars, streamVars>>

\* getAvailableModels(options) / updateModels(options) up to the first await.
\* updateModels starts by awaiting getAvailableModels(options).
CallManager(p, op, force, preserve) ==
    /\ CanCall(p)
    /\ op \in {"getAvailableModels", "updateModels"}
    /\ IF ~enabled
       THEN /\ procs' = [procs EXCEPT ![p] =
                   [NewCall(p, op, force, preserve) EXCEPT
                       !.outcome = "disabled",
                       !.avail = StaticTextModels,
                       !.ret = IF op = "getAvailableModels" THEN StaticTextModels ELSE @,
                       !.pc = IF op = "getAvailableModels" THEN "done" ELSE "available"]]
            /\ UNCHANGED fetchCount
       ELSE DiscoverModels(p, NewCall(p, op, force, preserve))
    /\ UNCHANGED <<now, apiKey, cache, durable, loader, mgrVars, streamVars>>

\* getAvailableModels resumes with the discovery result.
AfterDiscovery(p) ==
    /\ procs[p].pc = "discovered"
    /\ procs[p].op \in {"getAvailableModels", "updateModels"}
    /\ LET models == AvailableFrom(procs[p].disc, procs[p].preserve)
       IN  procs' = [procs EXCEPT ![p] =
                 [@ EXCEPT !.avail = models,
                           !.ret = IF procs[p].op = "getAvailableModels" THEN models ELSE @,
                           !.pc = IF procs[p].op = "getAvailableModels" THEN "done"
                                  ELSE "available"]]
    /\ UNCHANGED <<now, apiKey, cache, durable, loader, fetchCount, mgrVars, streamVars>>

\* this.filterModelsForVersion(ModelManager.staticModels, true)
StaticImageModels == FilterModelsForVersion(StaticModels, TRUE)

\* A merge that appends the whole static list.
WithMissingStaticModels_AppendAll(dynamicModels) == dynamicModels \o StaticModels

\* [...dynamicModels, ...missingStaticModels]: the dynamic list, then the
\* static models whose id the dynamic list lacks.
WithMissingStaticModels(dynamicModels) ==
    LET dynamicIds == Values(dynamicModels)
        missingStaticModels == SelectSeq(StaticModels, LAMBDA m : m.value \notin dynamicIds)
    IN  dynamicModels \o missingStaticModels

\* getImageGenerationModels after discovery: map, append the static models
\* the catalog lacks, sort, keep the image models; the static image models
\* when none is left or discovery gave nothing.
ImageModelsFrom(discovery) ==
    IF discovery.success /\ Len(discovery.models) > 0
    THEN LET dynamicModels == MapToGeminiModels(discovery.models)
             sorted == SortModelsByPreference(WithMissingStaticModels(dynamicModels))
             filtered == FilterModelsForVersion(sorted, TRUE)
         IN  IF Len(filtered) = 0 THEN StaticImageModels ELSE filtered
    ELSE StaticImageModels

\* getImageGenerationModels() up to its first await.
CallGetImageGenerationModels(p) ==
    /\ CanCall(p)
    /\ IF ~enabled
       THEN /\ procs' = [procs EXCEPT ![p] =
                   [NewCall(p, "getImageGenerationModels", FALSE, FALSE) EXCEPT
                       !.outcome = "disabled", !.ret = StaticImageModels, !.pc = "done"]]
            /\ UNCHANGED fetchCount
       ELSE DiscoverModels(p, NewCall(p, "getImageGenerationModels", FALSE, FALSE))
    /\ UNCHANGED <<now, apiKey, cache, durable, loader, mgrVars, streamVars>>

\* getImageGenerationModels resumes with the discovery result and returns.
AfterDiscoveryImage(p) ==
    /\ procs[p].pc = "discovered"
    /\ procs[p].op = "getImageGenerationModels"
    /\ procs' = [procs EXCEPT ![p] =
          [@ EXCEPT !.ret = ImageModelsFrom(procs[p].disc), !.pc = "done"]]
    /\ UNCHANGED <<now, apiKey, cache, durable, loader, fetchCount, mgrVars, streamVars>>

\* updateModels resumes with currentModels: detect, replace, recompute.
UpdateModelsFinish(p) ==
    /\ procs[p].pc = "available"
    /\ LET currentModels == procs[p].avail
           hasChanges == DetectModelChanges(currentModels, registry)
           newRegistry == IF hasChanges THEN SetGeminiModels(currentModels, FALSE) ELSE registry
           result == IF hasChanges THEN GetUpdatedModelSettings(newRegistry, settings)
                     ELSE [threw |-> FALSE, updatedSettings |-> settings,
                           settingsChanged |-> FALSE, changedSettingsInfo |-> << >>]
       IN  /\ registry' = newRegistry
           /\ procs' = [procs EXCEPT ![p] =
                 [@ EXCEPT !.pc = "done", !.threw = result.threw, !.ret = result]]
    /\ UNCHANGED <<now, apiKey, cache, durable, loader, fetchCount, enabled, settings, lastCall, streamVars>>

\* A refreshModels that answers the same blank record whatever happened.
RefreshModelsResult_Blank(result, models) ==
    [success |-> TRUE, modelsFound |-> 0, changes |-> FALSE]

\* What refreshModels returns, given how its updateModels settled (result)
\* and, if that returned, how its getAvailableModels settled (models): the
\* return of the try block, or that of the catch block.
RefreshModelsResult(result, models) ==
    IF result.threw
    THEN [success |-> FALSE, modelsFound |-> 0, changes |-> FALSE, error |-> result.error]
    ELSE IF models.threw
    THEN [success |-> FALSE, modelsFound |-> 0, changes |-> FALSE, error |-> models.error]
    ELSE [success |-> TRUE, modelsFound |-> Len(models.value),
          changes |-> result.settingsChanged]

\* refreshModels() up to the first await: updateModels({ forceRefresh: true,
\* preserveUserCustomizations: true }) starts.
CallRefreshModels(p) ==
    /\ CanCall(p)
    /\ LET rec == [NewCall(p, "updateModels", TRUE, TRUE) EXCEPT !.refresh = TRUE]
       IN  IF ~enabled
           THEN /\ procs' = [procs EXCEPT ![p] =
                       [rec EXCEPT !.outcome = "disabled", !.avail = StaticTextModels,
                                   !.pc = "available"]]
                /\ UNCHANGED fetchCount
           ELSE DiscoverModels(p, rec)
    /\ UNCHANGED <<now, apiKey, cache, durable, loader, mgrVars, streamVars>>

\* refreshModels resumes with the settled updateModels: the catch block when
\* it threw, else getAvailableModels({ forceRefresh: true }) starts.
RefreshAfterUpdate(p) ==
    /\ procs[p].refresh /\ procs[p].op = "updateModels" /\ procs[p].pc = "done"
    /\ IF procs[p].threw
       THEN /\ procs' = [procs EXCEPT ![p] =
                   [@ EXCEPT !.op = "refreshModels", !.refresh = FALSE, !.threw = FALSE,
                             !.ret = RefreshModelsResult(procs[p].ret, [threw |-> FALSE])]]
            /\ UNCHANGED fetchCount
       ELSE LET rec == [procs[p] EXCEPT !.op = "getAvailableModels", !.preserve = FALSE,
                                        !.result1 = procs[p].ret]
            IN  IF ~enabled
                THEN /\ procs' = [procs EXCEPT ![p] =
                            [rec EXCEPT !.outcome = "disabled", !.avail = StaticTextModels,
                                        !.ret = StaticTextModels]]
                     /\ UNCHANGED fetchCount
                ELSE DiscoverModels(p, rec)
    /\ UNCHANGED <<now, apiKey, cache, durable, loader, mgrVars, streamVars>>

\* refreshModels resumes with the models of getAvailableModels and returns.
RefreshReturn(p) ==
    /\ procs[p].refresh /\ procs[p].op = "getAvailableModels" /\ procs[p].pc = "done"
    /\ procs' = [procs EXCEPT ![p] =
          [@ EXCEPT !.op = "refreshModels", !.refresh = FALSE,
                    !.ret = RefreshModelsResult(procs[p].result1,
                                                [threw |-> procs[p].threw,
                                                 value |-> procs[p].ret])]]
    /\ UNCHANGED <<now, apiKey, cache, durable, loader, fetchCount, mgrVars, streamVars>>

\* The status object built from the result of discoverModels(false).
DiscoveryStatus(discovery) ==
    IF "error" \in DOMAIN discovery
    THEN [enabled |-> TRUE, working |-> discovery.success,
          lastUpdate |-> discovery.lastUpdated, error |-> discovery.error]
    ELSE [enabled |-> TRUE, working |-> discovery.success,
          lastUpdate |-> discovery.lastUpdated]

\* getDiscoveryStatus() up to its await.
CallGetDiscoveryStatus(p) ==
    /\ CanCall(p)
    /\ IF ~enabled
       THEN /\ procs' = [procs EXCEPT ![p] =
                   [NewCall(p, "getDiscoveryStatus", FALSE, FALSE) EXCEPT
                       !.outcome = "disabled", !.pc = "done",
                       !.ret = [enabled |-> FALSE, working |-> FALSE]]]
            /\ UNCHANGED fetchCount
       ELSE DiscoverModels(p, NewCall(p, "getDiscoveryStatus", FALSE, FALSE))
    /\ UNCHANGED <<now, apiKey, cache, durable, loader, mgrVars, streamVars>>

\* getDiscoveryStatus resumes with the discovery result and returns.
AfterDiscoveryStatus(p) ==
    /\ procs[p].pc = "discovered"
    /\ procs[p].op = "getDiscoveryStatus"
    /\ procs' = [procs EXCEPT ![p] =
          [@ EXCEPT !.ret = DiscoveryStatus(procs[p].disc), !.pc = "done"]]
    /\ UNCHANGED <<now, apiKey, cache, durable, loader, fetchCount, mgrVars, streamVars>>

\* A direct call setGeminiModels(m), m a fresh array or GEMINI_MODELS itself.
CallSetGeminiModels(m, isRegistryItself) ==
    /\ procs[Main].pc \in {"idle", "done"}
    /\ isRegistryItself => m = registry
    /\ registry' = SetGeminiModels(m, isRegistryItself)
    /\ lastCall' = [fn |-> "setGeminiModels", arg |-> m]
    /\ UNCHANGED <<discVars, enabled, settings, streamVars>>

\* A direct call getDefaultModelForRole(role).
CallGetDefaultModelForRole(role) ==
    /\ lastCall' = [fn |-> "getDefaultModelForRole", role |-> role,
                    out |-> GetDefaultModelForRole(registry, role)]
    /\ UNCHANGED <<discVars, enabled, registry, settings, streamVars>>

\* A direct call getUpdatedModelSettings(currentSettings).
CallGetUpdatedModelSettings(currentSettings) ==
    /\ lastCall' = [fn |-> "getUpdatedModelSettings", arg |-> currentSettings,
                    out |-> GetUpdatedModelSettings(registry, currentSettings),
                    \* the object handed in, as it is after the call: the
                    \* function works on the copy { ...currentSettings }
                    after |-> currentSettings]
    /\ UNCHANGED <<discVars, enabled, registry, settings, streamVars>>

(***************************************************************************)
(* gemini-client.ts: the server-sent-event decoder of                      *)
(* generateStreamingResponse.                                              *)
(* Text on the wire is a sequence of segments (short strings).  A line     *)
(* feed is always a segment of its own, so is every whitespace character   *)
(* next to a payload, and the prefix `data: ` ends at a segment boundary.  *)
(* A read delivers whole segments, so read boundaries fall inside events,  *)
(* inside the blank-line delimiter, inside the prefix and inside payloads. *)
(***************************************************************************)
NL == "\n"
Whitespace == {" ", "\r", "\t"}

\* The string a run of segments spells.
RECURSIVE Concat(_)
Concat(segs) == IF segs = << >> THEN "" ELSE Head(segs) \o Concat(Tail(segs))

\* String.prototype.split on a separator of n line feeds: matches are taken
\* left to right without overlap and empty pieces are kept.
RECURSIVE SplitRec(_, _, _)
SplitRec(segs, n, piece) ==
    IF segs = << >> THEN <<piece>>
    ELSE IF Len(segs) >= n /\ \A i \in 1..n : segs[i] = NL
         THEN <<piece>> \o SplitRec(SubSeq(segs, n + 1, Len(segs)), n, << >>)
         ELSE SplitRec(Tail(segs), n, Append(piece, Head(segs)))
Split(segs, n) == SplitRec(segs, n, << >>)

\* events = buffer.split('\n\n'); buffer = events.pop() || ''
EventsOf(text) == LET pieces == Split(text, 2) IN SubSeq(pieces, 1, Len(pieces) - 1)
\* A decoder that keeps nothing between reads.
RestOf_Dropped(text) == << >>

RestOf(text) == LET pieces == Split(text, 2) IN pieces[Len(pieces)]

\* for (const event of events) for (const line of event.split('\n')):
\* the lines in the order the two loops visit them.
RECURSIVE LinesOf(_)
LinesOf(events) ==
    IF events = << >> THEN << >> ELSE Split(Head(events), 1) \o LinesOf(Tail(events))

\* line.startsWith('data: ')
StartsWithData(line) == \E k \in 1..Len(line) : Concat(SubSeq(line, 1, k)) = "data: "

\* line.slice(6), for a line that starts with the prefix
Slice6(line) ==
    LET k == CHOOSE k \in 1..Len(line) : Concat(SubSeq(line, 1, k)) = "data: "
    IN  SubSeq(line, k + 1, Len(line))

\* String.prototype.trim
RECURSIVE TrimLeft(_)
TrimLeft(segs) ==
    IF segs # << >> /\ Head(segs) \in Whitespace THEN TrimLeft(Tail(segs)) ELSE segs
RECURSIVE TrimRight(_)
TrimRight(segs) ==
    IF segs # << >> /\ segs[Len(segs)] \in Whitespace
    THEN TrimRight(SubSeq(segs, 1, Len(segs) - 1)) ELSE segs
Trim(segs) == TrimRight(TrimLeft(segs))

\* const data = line.slice(6).trim()
DataOf(line) == Concat(Trim(Slice6(line)))

\* if (!data || data === '[DONE]') continue
SkipsPayload_EmptyOnly(data) == data = ""
SkipsPayload(data) == data = "" \/ data = "[DONE]"

\* The payloads a server sends, each cut in two segments.
ChunkHello == << "{\"choices\":[{\"delta\":{\"con", "tent\":\"Hello \"}}]}" >>
ChunkWorld == << "{\"choices\":[{\"delta\":{\"content\":", "\"World\"}}]}" >>
ChunkRole  == << "{\"choices\":[{\"delta\":{\"role\":", "\"assistant\"}}]}" >>
ChunkUsage == << "{\"choices\":[],", "\"usage\":{\"total_tokens\":7}}" >>
ChunkBad   == << "{\"choices\":[{\"delta\":", "{\"content\":\"Wor" >>
ToolSearch ==
    << "{\"choices\":[{\"delta\":{\"tool_calls\":[{\"index\":2,\"id\":\"call_2\",",
       "\"function\":{\"name\":\"search_files\",\"arguments\":\"\"}}]}}]}" >>
ToolRead1 ==
    << "{\"choices\":[{\"delta\":{\"tool_calls\":[{\"index\":0,\"id\":\"call_1\",",
       "\"function\":{\"name\":\"read_file\",\"arguments\":\"{\\\"n\\\"\"}}]}}]}" >>
ToolRead2 ==
    << "{\"choices\":[{\"delta\":{\"tool_calls\":[{\"index\":0,",
       "\"function\":{\"arguments\":\":\"}}]}}]}" >>
ToolRead3 ==
    << "{\"choices\":[{\"delta\":{\"tool_calls\":[{\"index\":0,",
       "\"function\":{\"arguments\":\"1}\"}}]}}]}" >>
ToolReadWhole ==
    << "{\"choices\":[{\"delta\":{\"tool_calls\":[{\"index\":0,\"id\":\"call_1\",",
       "\"function\":{\"name\":\"read_file\",\"arguments\":\"{\\\"n\\\":1}\"}}]}}]}" >>
ToolOrphan ==
    << "{\"choices\":[{\"delta\":{\"tool_calls\":[{\"index\":1,",
       "\"function\":{\"arguments\":\"{}\"}}]}}]}" >>
ToolNoIndex ==
    << "{\"choices\":[{\"delta\":{\"tool_calls\":[{\"id\":\"call_9\",",
       "\"function\":{\"name\":\"list_files\",\"arguments\":\":1}\"}}]}}]}" >>

\* tc.index is undefined
NoIndex == -1

\* One element of delta.tool_calls.  An absent id, name or arguments is the
\* empty string: the code tests all three for truthiness only.
ToolDelta(index, id, name, arguments) ==
    [index |-> index, id |-> id, name |-> name, arguments |-> arguments]

\* chunk.choices?.[0]?.delta of a parsed payload; content and tool_calls are
\* empty when the payload carries none.
TextDelta(text) == [content |-> text, tool_calls |-> << >>]
CallDelta(tc) == [content |-> "", tool_calls |-> <<tc>>]

\* JSON.parse(data) followed by chunk.choices?.[0]?.delta: the payloads
\* above decode to their deltas, any other text is a SyntaxError.
JsonParse(data) ==
    CASE data = Concat(ChunkHello) -> [ok |-> TRUE, delta |-> TextDelta("Hello ")]
      [] data = Concat(ChunkWorld) -> [ok |-> TRUE, delta |-> TextDelta("World")]
      [] data = Concat(ChunkRole)  -> [ok |-> TRUE, delta |-> TextDelta("")]
      [] data = Concat(ChunkUsage) -> [ok |-> TRUE, delta |-> TextDelta("")]
      [] data = Concat(ToolSearch) ->
            [ok |-> TRUE, delta |-> CallDelta(ToolDelta(2, "call_2", "search_files", ""))]
      [] data = Concat(ToolRead1) ->
            [ok |-> TRUE, delta |-> CallDelta(ToolDelta(0, "call_1", "read_file", "{\"n\""))]
      [] data = Concat(ToolRead2) ->
            [ok |-> TRUE, delta |-> CallDelta(ToolDelta(0, "", "", ":"))]
      [] data = Concat(ToolRead3) ->
            [ok |-> TRUE, delta |-> CallDelta(ToolDelta(0, "", "", "1}"))]
      [] data = Concat(ToolReadWhole) ->
            [ok |-> TRUE, delta |-> CallDelta(ToolDelta(0, "call_1", "read_file", "{\"n\":1}"))]
      [] data = Concat(ToolOrphan) ->
            [ok |-> TRUE, delta |-> CallDelta(ToolDelta(1, "", "", "{}"))]
      [] data = Concat(ToolNoIndex) ->
            [ok |-> TRUE, delta |-> CallDelta(ToolDelta(NoIndex, "call_9", "list_files", ":1}"))]
      [] OTHER -> [ok |-> FALSE]

\* The object {} .
EmptyObject == << >>

\* A decoder that swallows malformed arguments into {}.
ParseJson_Swallow(value) ==
    IF value = "" THEN EmptyObject
    ELSE CASE value = "{\"n\":1}" -> [n |-> 1]
           [] value = "{\"query\":\"abc\"}" -> [query |-> "abc"]
           [] OTHER -> EmptyObject

\* parseJson(value): {} for an empty string, the decoded value of valid
\* JSON, {raw: value} otherwise.
ParseJson(value) ==
    IF value = "" THEN EmptyObject
    ELSE CASE value = "{\"n\":1}" -> [n |-> 1]
           [] value = "{\"query\":\"abc\"}" -> [query |-> "abc"]
           [] value = "{}" -> EmptyObject
           [] OTHER -> [raw |-> value]

\* The position of index in the Map's insertion order, 0 when absent.
PositionOf(tcb, index) ==
    IF \E k \in DOMAIN tcb : tcb[k].index = index
    THEN CHOOSE k \in DOMAIN tcb : tcb[k].index = index
    ELSE 0

\* A fragment that replaces the accumulated arguments instead of extending
\* them.
Accumulate_Overwrite(tcb, tc) ==
    LET index == IF tc.index = NoIndex THEN 0 ELSE tc.index
        pos == PositionOf(tcb, index)
        existing == IF pos # 0 THEN tcb[pos]
                    ELSE [index |-> index, id |-> "", name |-> "", arguments |-> ""]
        updated == [existing EXCEPT
                      !.id = IF tc.id # "" THEN tc.id ELSE @,
                      !.name = IF tc.name # "" THEN tc.name ELSE @,
                      !.arguments = IF tc.arguments # "" THEN tc.arguments ELSE @]
    IN  IF pos # 0 THEN [tcb EXCEPT ![pos] = updated] ELSE Append(tcb, updated)

\* One pass of the loop over delta.tool_calls: the entry of tc.index ?? 0
\* takes the id and the name when supplied and has the arguments fragment
\* appended; Map.set keeps a known key at its place and adds a new one last.
Accumulate(tcb, tc) ==
    LET index == IF tc.index = NoIndex THEN 0 ELSE tc.index
        pos == PositionOf(tcb, index)
        existing == IF pos # 0 THEN tcb[pos]
                    ELSE [index |-> index, id |-> "", name |-> "", arguments |-> ""]
        updated == [existing EXCEPT
                      !.id = IF tc.id # "" THEN tc.id ELSE @,
                      !.name = IF tc.name # "" THEN tc.name ELSE @,
                      !.arguments = IF tc.arguments # "" THEN @ \o tc.arguments ELSE @]
    IN  IF pos # 0 THEN [tcb EXCEPT ![pos] = updated] ELSE Append(tcb, updated)

RECURSIVE AccumulateAll(_, _)
AccumulateAll(tcb, tcs) ==
    IF tcs = << >> THEN tcb ELSE AccumulateAll(Accumulate(tcb, Head(tcs)), Tail(tcs))

\* let toolCalls: ToolCall[] | undefined
Undefined == [defined |-> FALSE]

RECURSIVE NamedCalls(_)
\* A finalization that lists the named entries by ascending index.
NamedCalls_ByIndex(tcb) ==
    LET named == {k \in DOMAIN tcb : tcb[k].name # ""}
        rank(k) == Cardinality({j \in named : tcb[j].index <= tcb[k].index})
    IN  [r \in 1..Cardinality(named) |->
            LET k == CHOOSE i \in named : rank(i) = r
            IN  [name |-> tcb[k].name, arguments |-> ParseJson(tcb[k].arguments)]]

\* values().filter(tc => tc.name).map(tc => ({ name, arguments: parseJson }))
NamedCalls(tcb) ==
    IF tcb = << >> THEN << >>
    ELSE (IF Head(tcb).name # ""
          THEN << [name |-> Head(tcb).name, arguments |-> ParseJson(Head(tcb).arguments)] >>
          ELSE << >>) \o NamedCalls(Tail(tcb))

RECURSIVE AllCalls(_)
AllCalls(tcb) ==
    IF tcb = << >> THEN << >>
    ELSE << [name |-> Head(tcb).name, arguments |-> ParseJson(Head(tcb).arguments)] >>
         \o AllCalls(Tail(tcb))

\* A finalization that forgets to drop the entries without a name.
FinalizeToolCalls_NoFilter(tcb) ==
    IF Len(tcb) > 0 THEN [defined |-> TRUE, calls |-> AllCalls(tcb)] ELSE Undefined

\* if (toolCallBuffer.size > 0) toolCalls = values().filter(name).map(...)
FinalizeToolCalls(tcb) ==
    IF Len(tcb) > 0 THEN [defined |-> TRUE, calls |-> NamedCalls(tcb)] ELSE Undefined

\* { markdown, rendered, ...(toolCalls && { toolCalls }) }
Result(md, tc) ==
    IF tc.defined THEN [markdown |-> md, rendered |-> "", toolCalls |-> tc.calls]
    ELSE [markdown |-> md, rendered |-> ""]

\* The promise `complete`.
Pending == [state |-> "pending"]
Fulfilled(value) == [state |-> "fulfilled", value |-> value]
Rejected(error) == [state |-> "rejected", error |-> error]

\* A resolution that prefers the configured model to the request's.
ResolveModel_ConfigFirst(req, cfg, reg) ==
    IF cfg.model # "" THEN [threw |-> FALSE, value |-> cfg.model]
    ELSE IF req.model # "" THEN [threw |-> FALSE, value |-> req.model]
    ELSE GetDefaultModelForRole(reg, "chat")

\* request.model || this.config.model || getDefaultModelForRole('chat')
ResolveModel(req, cfg, reg) ==
    IF req.model # "" THEN [threw |-> FALSE, value |-> req.model]
    ELSE IF cfg.model # "" THEN [threw |-> FALSE, value |-> cfg.model]
    ELSE GetDefaultModelForRole(reg, "chat")

\* The responses of POST /chat/completions.
Ev(data) == <<"da", "ta: ">> \o data \o <<NL, NL>>
Done == <<"[DONE]">>
BodyText == Ev(ChunkHello) \o Ev(ChunkWorld) \o Ev(Done)
BodyNoise ==
    <<": keep-alive", NL, NL, "event: message", NL, "da", "ta: ">> \o ChunkHello
    \o <<" ", NL, NL, "data: ", NL, NL, "data:", "[DONE]", NL, NL>>
    \o Ev(ChunkRole) \o Ev(ChunkWorld) \o Ev(ChunkUsage) \o Ev(Done)
BodyTool ==
    Ev(ToolSearch) \o Ev(ToolRead1) \o Ev(ToolOrphan) \o Ev(ToolRead2)
    \o Ev(ChunkHello) \o Ev(ToolRead3) \o Ev(Done)
BodyToolWhole == Ev(ToolSearch) \o Ev(ToolReadWhole) \o Ev(ToolOrphan) \o Ev(ChunkHello) \o Ev(Done)
BodyBad == Ev(ChunkHello) \o Ev(ChunkBad) \o Ev(ChunkWorld) \o Ev(Done)
BodyCut == Ev(ChunkHello) \o <<"da", "ta: ">> \o ChunkWorld
BodyCutTool == Ev(ToolSearch) \o Ev(ChunkHello) \o <<"data: ">> \o ToolReadWhole \o <<NL>>
BodyRename == Ev(ToolSearch) \o Ev(ToolRead1) \o Ev(ToolNoIndex) \o Ev(Done)
Bodies == {BodyText, BodyNoise, BodyTool, BodyToolWhole, BodyBad, BodyCut, BodyCutTool, BodyRename}

NoResponse == [null |-> TRUE]
OkResponse(body) == [ok |-> TRUE, hasBody |-> TRUE, status |-> "200", body |-> body]
Responses ==
    {OkResponse(b) : b \in Bodies}
    \cup {[ok |-> FALSE, hasBody |-> TRUE, status |-> "500", body |-> <<"internal ", "error">>],
          [ok |-> TRUE, hasBody |-> FALSE, status |-> "204", body |-> << >>]}

Requests == {[model |-> ""], [model |-> "llama-3.1-8b-instant"]}
Configs == {[model |-> ""], [model |-> "compound"]}
NoPayload == [null |-> TRUE]

\* The stream variables before any streaming call.
StreamIdle ==
    /\ sPc = "idle"
    /\ config = [model |-> "compound"]
    /\ request = [model |-> ""]
    /\ payload = NoPayload
    /\ httpAttempts = 0
    /\ response = NoResponse
    /\ wire = << >>
    /\ cancelled = FALSE
    /\ markdown = ""
    /\ buffer = << >>
    /\ lines = << >>
    /\ toolCallBuffer = << >>
    /\ toolCalls = Undefined
    /\ chunks = << >>
    /\ completion = Pending

(***************************************************************************)
(* GeminiClient.generateStreamingResponse as steps between awaits.         *)
(***************************************************************************)
\* The call: the closure variables are set, buildRequestPayload runs up to
\* its return (the model is resolved first), the handle is returned.
CallGenerateStreamingResponse(req) ==
    /\ sPc = "idle"
    /\ request' = req
    /\ LET model == ResolveModel(req, config, registry)
       IN  IF model.threw
           THEN /\ completion' = Rejected(model.error)
                /\ sPc' = "settled"
                /\ payload' = payload
           ELSE /\ completion' = completion
                /\ sPc' = "building"
                /\ payload' = [model |-> model.value, stream |-> TRUE]
    /\ UNCHANGED <<config, httpAttempts, response, wire, cancelled, markdown, buffer, lines,
                   toolCallBuffer, toolCalls, chunks>>
    /\ UNCHANGED <<discVars, mgrVars>>

\* The payload is ready: fetch(`${apiBase}/chat/completions`) is issued.
StartFetch ==
    /\ sPc = "building"
    /\ sPc' = "awaitResponse"
    /\ httpAttempts' = httpAttempts + 1
    /\ UNCHANGED <<config, request, payload, response, wire, cancelled, markdown, buffer,
                   lines, toolCallBuffer, toolCalls, chunks, completion>>
    /\ UNCHANGED <<discVars, mgrVars>>

\* fetch rejects.
FetchRejects ==
    /\ sPc = "awaitResponse"
    /\ sPc' = "settled"
    /\ completion' = Rejected("fetch failed")
    /\ UNCHANGED <<config, request, payload, httpAttempts, response, wire, cancelled,
                   markdown, buffer, lines, toolCallBuffer, toolCalls, chunks>>
    /\ UNCHANGED <<discVars, mgrVars>>

\* A loop that never looks at the flag.
LoopTop_IgnoresCancel(c, md, tcb) ==
    /\ sPc' = "reading"
    /\ UNCHANGED <<toolCalls, completion>>

\* while (!cancelled) at the top of an iteration: the next read is issued,
\* or the loop is left, the tool calls are finalized and the result returned.
LoopTop(c, md, tcb) ==
    IF c
    THEN /\ sPc' = "settled"
         /\ toolCalls' = FinalizeToolCalls(tcb)
         /\ completion' = Fulfilled(Result(md, FinalizeToolCalls(tcb)))
    ELSE /\ sPc' = "reading"
         /\ UNCHANGED <<toolCalls, completion>>

\* fetch resolves.  A response that is not ok or has no body leads to
\* `await streamResponse.text()`; otherwise the reader is taken and the loop
\* is entered.
ResponseArrives(r) ==
    /\ sPc = "awaitResponse"
    /\ payload.stream
    /\ response' = r
    /\ wire' = IF r.ok /\ r.hasBody THEN r.body ELSE << >>
    /\ IF ~r.ok \/ ~r.hasBody
       THEN /\ sPc' = "errorText"
            /\ UNCHANGED <<toolCalls, completion>>
       ELSE LoopTop(cancelled, markdown, toolCallBuffer)
    /\ UNCHANGED <<config, request, payload, httpAttempts, cancelled, markdown, buffer,
                   lines, toolCallBuffer, chunks>>
    /\ UNCHANGED <<discVars, mgrVars>>

\* streamResponse.text() resolves and the error is thrown.
ErrorTextRead ==
    /\ sPc = "errorText"
    /\ payload.stream
    /\ sPc' = "settled"
    /\ completion' = Rejected("Groq streaming request failed: " \o response.status \o " "
                              \o Concat(response.body))
    /\ UNCHANGED <<config, request, payload, httpAttempts, response, wire, cancelled, markdown,
                   buffer, lines, toolCallBuffer, toolCalls, chunks>>
    /\ UNCHANGED <<discVars, mgrVars>>

\* reader.read() resolves with the next k segments: they are appended to the
\* buffer, the complete events are cut off and their lines queued.  With no
\* complete event the loop is back at its top.
ReadResolves(k) ==
    /\ sPc = "reading"
    /\ k \in 1..Len(wire)
    /\ LET text == buffer \o SubSeq(wire, 1, k)
           queued == LinesOf(EventsOf(text))
       IN  /\ wire' = SubSeq(wire, k + 1, Len(wire))
           /\ buffer' = RestOf(text)
           /\ lines' = queued
           /\ IF queued = << >>
              THEN LoopTop(cancelled, markdown, toolCallBuffer)
              ELSE /\ sPc' = "processing"
                   /\ UNCHANGED <<toolCalls, completion>>
    /\ UNCHANGED <<config, request, payload, httpAttempts, response, cancelled, markdown,
                   toolCallBuffer, chunks>>
    /\ UNCHANGED <<discVars, mgrVars>>

\* A reader that parses what is left in the buffer when the transport ends.
ReadDone_Flushes ==
    /\ sPc = "reading"
    /\ wire = << >>
    /\ IF buffer # << >>
       THEN /\ sPc' = "processing"
            /\ lines' = LinesOf(<<buffer>>)
            /\ buffer' = << >>
            /\ UNCHANGED <<toolCalls, completion>>
       ELSE /\ sPc' = "settled"
            /\ toolCalls' = FinalizeToolCalls(toolCallBuffer)
            /\ completion' = Fulfilled(Result(markdown, FinalizeToolCalls(toolCallBuffer)))
            /\ UNCHANGED <<buffer, lines>>
    /\ UNCHANGED <<config, request, payload, httpAttempts, response, wire, cancelled,
                   markdown, toolCallBuffer, chunks>>
    /\ UNCHANGED <<discVars, mgrVars>>

\* reader.read() resolves with done: break, finalize, return.
ReadDone ==
    /\ sPc = "reading"
    /\ wire = << >>
    /\ sPc' = "settled"
    /\ toolCalls' = FinalizeToolCalls(toolCallBuffer)
    /\ completion' = Fulfilled(Result(markdown, FinalizeToolCalls(toolCallBuffer)))
    /\ UNCHANGED <<config, request, payload, httpAttempts, response, wire, cancelled,
                   markdown, buffer, lines, toolCallBuffer, chunks>>
    /\ UNCHANGED <<discVars, mgrVars>>

\* reader.read() rejects (the connection drops).
ReadFails ==
    /\ sPc = "reading"
    /\ sPc' = "settled"
    /\ completion' = Rejected("read failed")
    /\ UNCHANGED <<config, request, payload, httpAttempts, response, wire, cancelled,
                   markdown, buffer, lines, toolCallBuffer, toolCalls, chunks>>
    /\ UNCHANGED <<discVars, mgrVars>>

\* A loop body that skips a payload it cannot parse.
ProcessLine_SkipsBad(cancelInCallback) ==
    /\ sPc = "processing"
    /\ LET line == Head(lines)
           rest == Tail(lines)
           skipped == \/ ~StartsWithData(line) \/ SkipsPayload(DataOf(line))
                      \/ ~JsonParse(DataOf(line)).ok
       IN  \E parsed \in {IF skipped THEN [ok |-> TRUE, delta |-> TextDelta("")]
                           ELSE JsonParse(DataOf(line))} :
               LET text == parsed.delta.content
                   md == markdown \o text
                   c == cancelled \/ (text # "" /\ cancelInCallback)
                   tcb == AccumulateAll(toolCallBuffer, parsed.delta.tool_calls)
               IN  /\ markdown' = md
                   /\ chunks' = IF text # "" THEN Append(chunks, text) ELSE chunks
                   /\ cancelled' = c
                   /\ toolCallBuffer' = tcb
                   /\ lines' = rest
                   /\ IF rest = << >>
                      THEN LoopTop(c, md, tcb)
                      ELSE UNCHANGED <<sPc, toolCalls, completion>>
    /\ UNCHANGED <<config, request, payload, httpAttempts, response, wire, buffer>>
    /\ UNCHANGED <<discVars, mgrVars>>

\* The body of the inner loop for the next queued line.  A chunk callback
\* may call cancel() (cancelInCallback).  After the last line the loop is
\* back at its top.
ProcessLine(cancelInCallback) ==
    /\ sPc = "processing"
    /\ LET line == Head(lines)
           rest == Tail(lines)
           skipped == ~StartsWithData(line) \/ SkipsPayload(DataOf(line))
       IN  \E parsed \in {IF skipped THEN [ok |-> TRUE, delta |-> TextDelta("")]
                           ELSE JsonParse(DataOf(line))} :
           IF ~parsed.ok
           THEN /\ sPc' = "settled"
                /\ completion' = Rejected("SyntaxError")
                /\ lines' = << >>
                /\ UNCHANGED <<cancelled, markdown, chunks, toolCallBuffer, toolCalls>>
           ELSE LET text == parsed.delta.content
                    md == markdown \o text
                    c == cancelled \/ (text # "" /\ cancelInCallback)
                    tcb == AccumulateAll(toolCallBuffer, parsed.delta.tool_calls)
                IN  /\ markdown' = md
                    /\ chunks' = IF text # "" THEN Append(chunks, text) ELSE chunks
                    /\ cancelled' = c
                    /\ toolCallBuffer' = tcb
                    /\ lines' = rest
                    /\ IF rest = << >>
                       THEN LoopTop(c, md, tcb)
                       ELSE UNCHANGED <<sPc, toolCalls, completion>>
    /\ UNCHANGED <<config, request, payload, httpAttempts, response, wire, buffer>>
    /\ UNCHANGED <<discVars, mgrVars>>

\* A cancel that flips the flag.
Cancel_Toggles ==
    /\ sPc \in {"building", "awaitResponse", "errorText", "reading", "settled"}
    /\ cancelled' = ~cancelled
    /\ UNCHANGED <<sPc, config, request, payload, httpAttempts, response, wire, markdown,
                   buffer, lines, toolCallBuffer, toolCalls, chunks, completion>>
    /\ UNCHANGED <<discVars, mgrVars>>

\* cancel: () => (cancelled = true), called on the returned handle between
\* two steps of the call or after it.
Cancel ==
    /\ sPc \in {"building", "awaitResponse", "errorText", "reading", "settled"}
    /\ cancelled' = TRUE
    /\ UNCHANGED <<sPc, config, request, payload, httpAttempts, response, wire, markdown,
                   buffer, lines, toolCallBuffer, toolCalls, chunks, completion>>
    /\ UNCHANGED <<discVars, mgrVars>>

(***************************************************************************)
(* GeminiClient.generateModelResponse: buildRequestPayload,                *)
(* requestChatCompletion and extractResponse as steps between awaits.      *)
(***************************************************************************)
\* response.choices?.[0]?.message of a decoded body, and one element of its
\* tool_calls (tc.function.name, tc.function.arguments).
Message(content, tool_calls) == [content |-> content, tool_calls |-> tool_calls]
ToolCall(name, arguments) == [name |-> name, arguments |-> arguments]

\* The arguments strings a provider sends: valid JSON, the empty string,
\* and malformed text.
ArgumentStrings ==
    {"{\"n\":1}", "{\"query\":\"abc\"}", "{}", "", "{\"n\"", "not json"}
ToolCallsSent ==
    LET calls == {ToolCall(n, a) : n \in {"search_files", "read_file"}, a \in ArgumentStrings}
    IN  {<< >>} \cup {<<c>> : c \in calls} \cup {<<c, d>> : c \in calls, d \in calls}
MessagesSent == {Message(c, tcs) : c \in {"", "hello from groq"}, tcs \in ToolCallsSent}

\* The responses of POST /chat/completions without stream: a body that
\* decodes to a message, a body that is not JSON, and a non-2xx answer.
JsonResponses ==
    {[ok |-> TRUE, hasBody |-> TRUE, status |-> "200", body |-> << >>,
      json |-> [ok |-> TRUE, message |-> m]] : m \in MessagesSent}
    \cup {[ok |-> TRUE, hasBody |-> TRUE, status |-> "200", body |-> <<"<html>">>,
           json |-> [ok |-> FALSE]],
          [ok |-> FALSE, hasBody |-> TRUE, status |-> "500", body |-> <<"internal ", "error">>,
           json |-> [ok |-> FALSE]],
          [ok |-> FALSE, hasBody |-> TRUE, status |-> "429", body |-> <<"rate limit">>,
           json |-> [ok |-> FALSE]]}

\* choice.tool_calls.map(tc => ({ name, arguments: this.parseJson(...) }))
RECURSIVE DecodedCalls(_)
DecodedCalls(tcs) ==
    IF tcs = << >> THEN << >>
    ELSE << [name |-> Head(tcs).name, arguments |-> ParseJson(Head(tcs).arguments)] >>
         \o DecodedCalls(Tail(tcs))

\* extractResponse(response)
ExtractResponse(message) ==
    Result(message.content,
           IF Len(message.tool_calls) > 0
           THEN [defined |-> TRUE, calls |-> DecodedCalls(message.tool_calls)]
           ELSE Undefined)

\* The call: buildRequestPayload(request, false) runs up to its return.
CallGenerateModelResponse(req) ==
    /\ sPc = "idle"
    /\ request' = req
    /\ LET model == ResolveModel(req, config, registry)
       IN  IF model.threw
           THEN /\ completion' = Rejected(model.error)
                /\ sPc' = "settled"
                /\ payload' = payload
           ELSE /\ completion' = completion
                /\ sPc' = "building"
                /\ payload' = [model |-> model.value, stream |-> FALSE]
    /\ UNCHANGED <<config, httpAttempts, response, wire, cancelled, markdown, buffer, lines,
                   toolCallBuffer, toolCalls, chunks>>
    /\ UNCHANGED <<discVars, mgrVars>>

\* requestChatCompletion: fetch resolves; a response that is not ok leads to
\* `await response.text()`, any other to `response.json()`.
CompletionResponseArrives(r) ==
    /\ sPc = "awaitResponse"
    /\ ~payload.stream
    /\ response' = r
    /\ sPc' = IF ~r.ok THEN "errorText" ELSE "awaitJson"
    /\ UNCHANGED <<config, request, payload, httpAttempts, wire, cancelled, markdown, buffer,
                   lines, toolCallBuffer, toolCalls, chunks, completion>>
    /\ UNCHANGED <<discVars, mgrVars>>

\* A client that answers a failed request by sending it again.
CompletionErrorTextRead_Retry ==
    /\ sPc = "errorText"
    /\ ~payload.stream
    /\ sPc' = "building"
    /\ UNCHANGED <<config, request, payload, httpAttempts, response, wire, cancelled, markdown,
                   buffer, lines, toolCallBuffer, toolCalls, chunks, completion>>
    /\ UNCHANGED <<discVars, mgrVars>>

\* response.text() resolves and the error is thrown.
CompletionErrorTextRead ==
    /\ sPc = "errorText"
    /\ ~payload.stream
    /\ sPc' = "settled"
    /\ completion' = Rejected("Groq request failed: " \o response.status \o " "
                              \o Concat(response.body))
    /\ UNCHANGED <<config, request, payload, httpAttempts, response, wire, cancelled, markdown,
                   buffer, lines, toolCallBuffer, toolCalls, chunks>>
    /\ UNCHANGED <<discVars, mgrVars>>

\* response.json() settles: the decoded body goes through extractResponse,
\* a body that is not JSON rejects the call.
JsonResolves ==
    /\ sPc = "awaitJson"
    /\ sPc' = "settled"
    /\ completion' = IF response.json.ok
                     THEN Fulfilled(ExtractResponse(response.json.message))
                     ELSE Rejected("SyntaxError")
    /\ UNCHANGED <<config, request, payload, httpAttempts, response, wire, cancelled, markdown,
                   buffer, lines, toolCallBuffer, toolCalls, chunks>>
    /\ UNCHANGED <<discVars, mgrVars>>

InitDiscovery ==
    /\ now = 0
    /\ apiKey \in BOOLEAN
    /\ cache = NoCache
    /\ durable = NoData
    /\ loader = NoData
    /\ fetchCount = 0
    /\ procs = [p \in Callers |-> IdleProc]
    /\ enabled = TRUE
    /\ registry = DEFAULT_GEMINI_MODELS
    /\ settings = NoSettings
    /\ lastCall = NoCall
    /\ StreamIdle

NextDiscovery ==
    \/ \E force \in BOOLEAN : CallDiscoverModels(Main, force)
    \/ KeyErrorCaught(Main)
    \/ \E kind \in FetchFailures : FetchFails(Main, kind)
    \/ \E catalog \in Catalogs : FetchSucceeds(Main, catalog)
    \/ PersistLoad(Main)
    \/ PersistSave(Main)
    \/ LoadCacheRead
    \/ LoadCacheAssign
    \/ ClearCache
    \/ SetApiKey
    \/ Tick

SpecDiscovery == InitDiscovery /\ [][NextDiscovery]_vars

\* Catalogs the provider answers with in SpecManager.
CatalogAB == <<Raw("a"), Raw("b")>>
ManagerCatalogs == {CatalogAB, CatalogGroq, CatalogNoChat}

InitManager ==
    /\ now = 0
    /\ apiKey \in BOOLEAN
    /\ cache = NoCache
    /\ durable = NoData
    /\ loader = NoData
    /\ fetchCount = 0
    /\ procs = [p \in Callers |-> IdleProc]
    /\ enabled \in BOOLEAN
    /\ registry = DEFAULT_GEMINI_MODELS
    /\ settings \in SettingsChoices
    /\ lastCall = NoCall
    /\ StreamIdle

NextManager ==
    \/ \E op \in {"getAvailableModels", "updateModels"}, force, preserve \in BOOLEAN :
            CallManager(Main, op, force, preserve)
    \/ CallGetImageGenerationModels(Main)
    \/ CallRefreshModels(Main)
    \/ RefreshAfterUpdate(Main)
    \/ RefreshReturn(Main)
    \/ AfterDiscovery(Main)
    \/ AfterDiscoveryImage(Main)
    \/ UpdateModelsFinish(Main)
    \/ KeyErrorCaught(Main)
    \/ \E kind \in FetchFailures : FetchFails(Main, kind)
    \/ \E catalog \in ManagerCatalogs : FetchSucceeds(Main, catalog)
    \/ PersistLoad(Main)
    \/ PersistSave(Main)
    \/ \E m \in TestRegistries : CallSetGeminiModels(m, FALSE)

SpecManager == InitManager /\ [][NextManager]_vars

\* getDiscoveryStatus calls with the clock and the API key moving, discovery
\* enabled or not.
InitStatus ==
    /\ now = 0
    /\ apiKey \in BOOLEAN
    /\ cache = NoCache
    /\ durable = NoData
    /\ loader = NoData
    /\ fetchCount = 0
    /\ procs = [p \in Callers |-> IdleProc]
    /\ enabled \in BOOLEAN
    /\ registry = DEFAULT_GEMINI_MODELS
    /\ settings = NoSettings
    /\ lastCall = NoCall
    /\ StreamIdle

NextStatus ==
    \/ CallGetDiscoveryStatus(Main)
    \/ AfterDiscoveryStatus(Main)
    \/ KeyErrorCaught(Main)
    \/ \E kind \in FetchFailures : FetchFails(Main, kind)
    \/ \E catalog \in Catalogs : FetchSucceeds(Main, catalog)
    \/ PersistLoad(Main)
    \/ PersistSave(Main)
    \/ SetApiKey
    \/ Tick

SpecStatus == InitStatus /\ [][NextStatus]_vars

\* The registry functions of models.ts called directly, as the tests do.
InitRegistry ==
    /\ now = 0
    /\ apiKey = TRUE
    /\ cache = NoCache
    /\ durable = NoData
    /\ loader = NoData
    /\ fetchCount = 0
    /\ procs = [p \in Callers |-> IdleProc]
    /\ enabled = TRUE
    /\ registry = DEFAULT_GEMINI_MODELS
    /\ settings \in SettingsChoices
    /\ lastCall = NoCall
    /\ StreamIdle

NextRegistry ==
    \/ \E m \in DirectRegistries : CallSetGeminiModels(m, FALSE)
    \/ CallSetGeminiModels(registry, TRUE)
    \/ \E role \in ModelRoles : CallGetDefaultModelForRole(role)
    \/ \E s \in DirectSettings : CallGetUpdatedModelSettings(s)

SpecRegistry == InitRegistry /\ [][NextRegistry]_vars

\* One streaming completion call of a client built with or without a
\* configured model, on the default registry or on an empty one.
InitStream ==
    /\ now = 0
    /\ apiKey = TRUE
    /\ cache = NoCache
    /\ durable = NoData
    /\ loader = NoData
    /\ fetchCount = 0
    /\ procs = [p \in Callers |-> IdleProc]
    /\ enabled = TRUE
    /\ registry \in {DEFAULT_GEMINI_MODELS, << >>}
    /\ settings = NoSettings
    /\ lastCall = NoCall
    /\ sPc = "idle"
    /\ config \in Configs
    /\ request = [model |-> ""]
    /\ payload = NoPayload
    /\ httpAttempts = 0
    /\ response = NoResponse
    /\ wire = << >>
    /\ cancelled = FALSE
    /\ markdown = ""
    /\ buffer = << >>
    /\ lines = << >>
    /\ toolCallBuffer = << >>
    /\ toolCalls = Undefined
    /\ chunks = << >>
    /\ completion = Pending

NextStream ==
    \/ \E req \in Requests : CallGenerateStreamingResponse(req)
    \/ StartFetch
    \/ FetchRejects
    \/ \E r \in Responses : ResponseArrives(r)
    \/ ErrorTextRead
    \/ \E k \in 1..MaxRead : ReadResolves(k)
    \/ ReadResolves(Len(wire))
    \/ ReadDone
    \/ ReadFails
    \/ \E cancelInCallback \in BOOLEAN : ProcessLine(cancelInCallback)
    \/ Cancel

SpecStream == InitStream /\ [][NextStream]_vars

\* Inside the read loop the awaited reader.read() settles (it resolves with
\* data, resolves with done, or rejects) and the synchronous handling of the
\* events of a read runs on to the next await.
StreamFairness ==
    WF_vars(\/ \E k \in 1..MaxRead : ReadResolves(k)
            \/ ReadDone
            \/ ReadFails
            \/ \E cancelInCallback \in BOOLEAN : ProcessLine(cancelInCallback))

SpecStreamFair == InitStream /\ [][NextStream]_vars /\ StreamFairness

\* One completion call of the same client, streaming or not.
NextClient ==
    \/ \E req \in Requests : CallGenerateStreamingResponse(req)
    \/ \E req \in Requests : CallGenerateModelResponse(req)
    \/ StartFetch
    \/ FetchRejects
    \/ \E r \in Responses : ResponseArrives(r)
    \/ ErrorTextRead
    \/ \E k \in 1..MaxRead : ReadResolves(k)
    \/ ReadResolves(Len(wire))
    \/ ReadDone
    \/ ReadFails
    \/ \E cancelInCallback \in BOOLEAN : ProcessLine(cancelInCallback)
    \/ Cancel
    \/ \E r \in JsonResponses : CompletionResponseArrives(r)
    \/ CompletionErrorTextRead
    \/ JsonResolves

SpecClient == InitStream /\ [][NextClient]_vars

\* Two discoverModels calls, the second issued by another caller once the
\* first has returned, with the clock, clearCache and the API key moving
\* freely around them.
First == "c1"
Second == "c2"

InitSequence == InitDiscovery

NextSequence ==
    \/ \E force \in BOOLEAN : procs[First].n = 0 /\ CallDiscoverModels(First, force)
    \/ \E force \in BOOLEAN :
          /\ procs[First].pc = "done" /\ procs[Second].n = 0
          /\ CallDiscoverModels(Second, force)
    \/ \E p \in Callers : KeyErrorCaught(p)
    \/ \E p \in Callers, kind \in FetchFailures : FetchFails(p, kind)
    \/ \E p \in Callers, catalog \in Catalogs : FetchSucceeds(p, catalog)
    \/ \E p \in Callers : PersistLoad(p)
    \/ \E p \in Callers : PersistSave(p)
    \/ ClearCache
    \/ SetApiKey
    \/ Tick

SpecSequence == InitSequence /\ [][NextSequence]_vars

(***************************************************************************)
(* Overlapping calls: each caller issues one discoverModels call at any    *)
(* time, so that the awaits of the two calls interleave freely, while the  *)
(* settings tab saves the API key to the same durable blob.                *)
(***************************************************************************)
\* The values the settings tab writes under the blob's apiKey key.
KeysTyped == {"k1", "k2"}

\* onChange of the API key field: plugin.settings.apiKey = value;
\* await plugin.saveSettings().  The save writes the key to the blob and
\* leaves the other keys as they are.
SaveSettings(value) ==
    /\ durable' = WithKey(OrEmpty(durable), "apiKey", value)
    /\ UNCHANGED <<now, apiKey, cache, loader, fetchCount, procs, mgrVars, streamVars>>

InitOverlap ==
    /\ now = 0
    /\ apiKey = TRUE
    /\ cache = NoCache
    /\ durable = NoData
    /\ loader = NoData
    /\ fetchCount = 0
    /\ procs = [p \in Callers |-> IdleProc]
    /\ enabled = TRUE
    /\ registry = DEFAULT_GEMINI_MODELS
    /\ settings = NoSettings
    /\ lastCall = NoCall
    /\ StreamIdle

NextOverlap ==
    \/ \E p \in Callers, force \in BOOLEAN : procs[p].n = 0 /\ CallDiscoverModels(p, force)
    \/ \E p \in Callers, kind \in FetchFailures : FetchFails(p, kind)
    \/ \E p \in Callers, catalog \in Catalogs : FetchSucceeds(p, catalog)
    \/ \E p \in Callers : PersistLoad(p)
    \/ \E p \in Callers : PersistSave(p)
    \/ \E value \in KeysTyped : SaveSettings(value)
    \/ Tick

SpecOverlap == InitOverlap /\ [][NextOverlap]_vars

(***************************************************************************)
(* A restart: the process ends with whatever call was in flight, a fresh   *)
(* service is constructed (cache = null) and ModelManager.initialize()     *)
(* calls loadCache(), whose loadData() is issued at once.  The durable     *)
(* blob survives.  The caller of the old process is gone.                  *)
(***************************************************************************)
Restart ==
    /\ procs[First].pc # "gone"
    /\ procs[Second].n = 0
    /\ cache' = NoCache
    /\ loader' = [data |-> OrEmpty(durable)]
    /\ procs' = [procs EXCEPT ![First] = [@ EXCEPT !.pc = "gone"]]
    /\ UNCHANGED <<now, apiKey, durable, fetchCount, mgrVars, streamVars>>

\* The old process is still running.
BeforeRestart == procs[First].pc # "gone"

\* The fresh service has finished initialize().
Initialized == procs[First].pc = "gone" /\ loader = NoData

InitRestart == InitDiscovery

\* First calls the service of the old process; Second makes the first call
\* to the new one once initialize() has returned.
NextRestart ==
    \/ \E force \in BOOLEAN :
          BeforeRestart /\ procs[First].n < MaxCalls - 1 /\ CallDiscoverModels(First, force)
    \/ \E force \in BOOLEAN :
          Initialized /\ procs[Second].n = 0 /\ CallDiscoverModels(Second, force)
    \/ \E p \in Callers : KeyErrorCaught(p)
    \/ \E p \in Callers, kind \in FetchFailures : FetchFails(p, kind)
    \/ \E p \in Callers, catalog \in Catalogs : FetchSucceeds(p, catalog)
    \/ \E p \in Callers : PersistLoad(p)
    \/ \E p \in Callers : PersistSave(p)
    \/ Restart
    \/ LoadCacheAssign
    \/ SetApiKey
    \/ Tick

SpecRestart == InitRestart /\ [][NextRestart]_vars

(***************************************************************************)
(* filterModelsForVersion as a function of its arguments.  The input list  *)
(* is drawn at the start; each call records its output next to it.         *)
(***************************************************************************)
Flagged(m) == [m EXCEPT !.supportsImageGeneration = TRUE]

\* Plain, denylisted, denylisted under upper case and named for vision,
\* flagged and named, named only, denylisted and flagged, flagged only.
FilterPool ==
    { Model("compound", "Compound", {"chat"}),
      Model("whisper-large-v3", "Whisper", {}),
      Model("Llama-Guard-3-11B-Vision", "Guard", {}),
      Flagged(Model("flux-dev", "Flux", {})),
      Model("llava-vision", "Vision", {}),
      Flagged(Model("playai-tts", "TTS", {})),
      Flagged(Model("a", "A", {})) }

FilterInputs == UNION {[1..n -> FilterPool] : n \in 0..MaxList}

\* The output of a call not made yet.
NotCalled == [called |-> FALSE]

InitFilter ==
    /\ now = 0
    /\ apiKey = TRUE
    /\ cache = NoCache
    /\ durable = NoData
    /\ loader = NoData
    /\ fetchCount = 0
    /\ procs = [p \in Callers |-> IdleProc]
    /\ enabled = TRUE
    /\ registry = DEFAULT_GEMINI_MODELS
    /\ settings = NoSettings
    /\ \E models \in FilterInputs :
          lastCall = [fn |-> "filterModelsForVersion", arg |-> models,
                      text |-> NotCalled, image |-> NotCalled]
    /\ StreamIdle

\* this.filterModelsForVersion(models, imageModelsOnly)
CallFilterModelsForVersion(imageModelsOnly) ==
    /\ lastCall.fn = "filterModelsForVersion"
    /\ LET out == [called |-> TRUE,
                   models |-> FilterModelsForVersion(lastCall.arg, imageModelsOnly)]
       IN  lastCall' = IF imageModelsOnly THEN [lastCall EXCEPT !.image = out]
                       ELSE [lastCall EXCEPT !.text = out]
    /\ UNCHANGED <<discVars, enabled, registry, settings, streamVars>>

NextFilter == \E imageModelsOnly \in BOOLEAN : CallFilterModelsForVersion(imageModelsOnly)

SpecFilter == InitFilter /\ [][NextFilter]_vars

(***************************************************************************)
(* The merge of a dynamic list with the static baseline as a function of   *)
(* the dynamic list: the inline merge of getImageGenerationModels and      *)
(* ModelMapper.mergeWithExistingModels.                                    *)
(***************************************************************************)
\* Mapped catalog entries: two ids of the static baseline, three others.
MergePool ==
    { Model(id, id, {}) : id \in {"compound", "llama-3.1-8b-instant", "a", "b", "flux-dev"} }

\* Lists in which no id occurs twice.
MergeInputs ==
    {s \in UNION {[1..n -> MergePool] : n \in 0..MaxList} :
        \A i, j \in 1..Len(s) : s[i].value = s[j].value => i = j}

InitMerge ==
    /\ now = 0
    /\ apiKey = TRUE
    /\ cache = NoCache
    /\ durable = NoData
    /\ loader = NoData
    /\ fetchCount = 0
    /\ procs = [p \in Callers |-> IdleProc]
    /\ enabled = TRUE
    /\ registry = DEFAULT_GEMINI_MODELS
    /\ settings = NoSettings
    /\ \E dynamic \in MergeInputs :
          lastCall = [fn |-> "merge", arg |-> dynamic,
                      inline |-> NotCalled, mapper |-> NotCalled]
    /\ StreamIdle

\* getImageGenerationModels merges the mapped list with the static models.
CallInlineMerge ==
    /\ lastCall.fn = "merge"
    /\ lastCall' = [lastCall EXCEPT
          !.inline = [called |-> TRUE, models |-> WithMissingStaticModels(lastCall.arg)]]
    /\ UNCHANGED <<discVars, enabled, registry, settings, streamVars>>

\* ModelMapper.mergeWithExistingModels(dynamicModels, ModelManager.staticModels)
CallMergeWithExistingModels ==
    /\ lastCall.fn = "merge"
    /\ lastCall' = [lastCall EXCEPT
          !.mapper = [called |-> TRUE,
                      models |-> MergeWithExistingModels(lastCall.arg, StaticModels)]]
    /\ UNCHANGED <<discVars, enabled, registry, settings, streamVars>>

NextMerge ==
    \/ CallInlineMerge
    \/ CallMergeWithExistingModels

SpecMerge == InitMerge /\ [][NextMerge]_vars

(***************************************************************************)
(* Claims about discoverModels (SpecDiscovery).                            *)
(***************************************************************************)
\* Caller p starts a call in this step.
Starts(p) == procs'[p].n = procs[p].n + 1

\* Caller p's discoverModels call settles in this step.
Settles(p) == procs[p].pc \notin {"idle", "done"} /\ procs'[p].pc = "done"

Failed == {"nokey", "transport", "non2xx"}

\* C1: discoverModels(false), called while a cache exists whose age
\* now - lastUpdated is below the TTL, returns that very cache, leaves it
\* unchanged and issues no catalog request.
C1_ValidCacheIsReturned ==
    [][\A p \in Callers :
        (/\ Starts(p)
         /\ procs'[p].op = "discoverModels" /\ ~procs'[p].force
         /\ cache # NoCache /\ now - cache.lastUpdated < CACHE_DURATION)
        => /\ procs'[p].pc = "done" /\ ~procs'[p].threw
           /\ procs'[p].ret = cache
           /\ cache' = cache
           /\ fetchCount' = fetchCount]_vars

\* A call answered from a cache that a real catalog request filled one tick
\* earlier.
C1_Witness ==
    /\ procs[Main].pc = "done" /\ procs[Main].outcome = "cached"
    /\ procs[Main].ret = cache /\ fetchCount = 1 /\ now = cache.lastUpdated + 1

\* C2: a failed attempt (no API key, transport error, non-2xx) never leaves
\* discoverModels as an exception: the call returns the in-memory cache if
\* there is one, else {models: [], success: false, error}, and changes
\* neither the cache nor the durable record; without an API key no catalog
\* request is issued.
C2_FailureIsAbsorbed ==
    [][\A p \in Callers :
        /\ (Settles(p) /\ procs'[p].outcome \in Failed)
           => /\ ~procs'[p].threw
              /\ procs'[p].ret =
                    IF cache # NoCache THEN cache
                    ELSE [models |-> <<>>, lastUpdated |-> now, success |-> FALSE,
                          error |-> ErrorMessage(procs'[p].outcome)]
              /\ cache' = cache /\ durable' = durable
              /\ fetchCount' = fetchCount
        /\ (Starts(p) /\ ~apiKey) => fetchCount' = fetchCount]_vars

\* A failed forced refresh that handed back the cache of an earlier success.
C2_Witness ==
    /\ procs[Main].pc = "done" /\ procs[Main].force
    /\ procs[Main].outcome \in Failed
    /\ cache # NoCache /\ procs[Main].ret = cache /\ cache.success

(***************************************************************************)
(* Claims about ModelManager and the registry (SpecManager, SpecRegistry). *)
(***************************************************************************)
\* The discovery attempt behind caller p's operation failed and handed back
\* an unsuccessful result (no cache stood in for it).
DiscoveryUnsuccessful(p) ==
    /\ procs[p].op \in {"getAvailableModels", "updateModels"}
    /\ procs[p].pc \in {"available", "done"}
    /\ procs[p].outcome \in Failed
    /\ ~procs[p].disc.success

\* C3: getAvailableModels never throws, and whenever discovery returned an
\* unsuccessful result it returns the static baseline without its
\* image-generation and denylisted models.
C3_StaticFallback ==
    \A p \in Callers :
        /\ procs[p].op = "getAvailableModels" => ~procs[p].threw
        /\ DiscoveryUnsuccessful(p)
           => procs[p].avail =
                 SelectSeq(DEFAULT_GEMINI_MODELS, LAMBDA m : ~IsExcluded(m) /\ ~IsImageModel(m))

\* getAvailableModels returned the seven static models after a failed
\* catalog request with no cache to fall back on.
C3_Witness ==
    /\ procs[Main].op = "getAvailableModels" /\ procs[Main].pc = "done"
    /\ DiscoveryUnsuccessful(Main) /\ procs[Main].outcome = "non2xx"
    /\ Len(procs[Main].ret) = 7 /\ procs[Main].ret = procs[Main].avail

\* The model-name settings updateModels recomputes, with their roles.
RoleOf(key) ==
    CASE key = "chatModelName" -> "chat"
      [] key = "summaryModelName" -> "summary"
      [] key = "completionsModelName" -> "completions"
NameKeys == {"chatModelName", "summaryModelName", "completionsModelName"}

\* Caller p's updateModels returns in this step.
UpdateReturns(p) ==
    procs[p].pc = "available" /\ procs'[p].pc = "done" /\ ~procs'[p].threw

\* What the claim promises of result r for the settings s on registry reg.
Reassigned(reg, s, r) ==
    \A key \in NameKeys :
        IF s[key] \notin Values(reg)
        THEN /\ r.updatedSettings[key] = GetDefaultModelForRole(reg, RoleOf(key)).value
             /\ r.settingsChanged
        ELSE r.updatedSettings[key] = s[key]

C10_RoleDefault ==
    lastCall.fn = "getDefaultModelForRole" =>
        LET claim == {i \in DOMAIN registry : lastCall.role \in registry[i].defaultForRoles}
        IN  IF registry = << >> THEN lastCall.out.threw
            ELSE /\ ~lastCall.out.threw
                 /\ IF claim # {}
                    THEN \E i \in claim : /\ \A j \in claim : i <= j
                                          /\ lastCall.out.value = registry[i].value
                    ELSE lastCall.out.value = registry[1].value

\* Two models claim the chat role and the first model of the registry claims
\* none: the first claimant is returned.
C10_Witness ==
    /\ lastCall.fn = "getDefaultModelForRole" /\ lastCall.role = "chat"
    /\ registry = RegDup /\ lastCall.out = [threw |-> FALSE, value |-> "a"]

(***************************************************************************)
(* Claims about generateStreamingResponse (SpecStream).                    *)
(***************************************************************************)
\* A line that carries no payload: not a `data: ` line, an empty payload or
\* the [DONE] sentinel.
NoOpLine(line) == ~StartsWithData(line) \/ DataOf(line) \in {"", "[DONE]"}

\* The deltas of the complete events of a response body in arrival order, up
\* to the first payload that does not parse.
RECURSIVE DeltasOfLines(_)
DeltasOfLines(ls) ==
    IF ls = << >> THEN << >>
    ELSE IF NoOpLine(Head(ls)) THEN DeltasOfLines(Tail(ls))
    ELSE IF JsonParse(DataOf(Head(ls))).ok
         THEN <<JsonParse(DataOf(Head(ls))).delta>> \o DeltasOfLines(Tail(ls))
         ELSE << >>
Arrived(body) == DeltasOfLines(LinesOf(EventsOf(body)))

\* The non-empty texts among them.
RECURSIVE TextsOf(_)
TextsOf(deltas) ==
    IF deltas = << >> THEN << >>
    ELSE (IF Head(deltas).content # "" THEN <<Head(deltas).content>> ELSE << >>)
         \o TextsOf(Tail(deltas))

\* The tool-call fragments among them.
RECURSIVE FragmentsOf(_)
FragmentsOf(deltas) ==
    IF deltas = << >> THEN << >> ELSE Head(deltas).tool_calls \o FragmentsOf(Tail(deltas))

IndexOf(tc) == IF tc.index = NoIndex THEN 0 ELSE tc.index

\* The arguments string of an index had it been sent whole.
RECURSIVE WholeArguments(_, _)
WholeArguments(index, frags) ==
    IF frags = << >> THEN ""
    ELSE (IF IndexOf(Head(frags)) = index THEN Head(frags).arguments ELSE "")
         \o WholeArguments(index, Tail(frags))

IsPrefix(s, t) == Len(s) <= Len(t) /\ s = SubSeq(t, 1, Len(s))

InFlight == {"building", "awaitResponse", "errorText", "reading", "processing"}

\* C4: text deltas reach the chunk callback one at a time and in arrival
\* order; in every state markdown is the concatenation of the chunks
\* delivered so far; a `[DONE]` payload, an empty payload and a line without
\* the `data: ` prefix deliver nothing and change nothing; the markdown of
\* the final result is the concatenation of all delivered chunks.
C4_ChunksInArrivalOrder ==
    [][/\ markdown' = Concat(chunks')
       /\ \/ chunks' = chunks
          \/ Len(chunks') = Len(chunks) + 1 /\ IsPrefix(chunks, chunks')
       /\ IsPrefix(chunks', IF response' = NoResponse THEN << >>
                            ELSE TextsOf(Arrived(response'.body)))
       /\ (sPc = "processing" /\ NoOpLine(Head(lines)))
          => /\ markdown' = markdown /\ chunks' = chunks
             /\ toolCallBuffer' = toolCallBuffer
             /\ completion'.state # "rejected"
       /\ completion'.state = "fulfilled"
          => completion'.value.markdown = Concat(chunks')]_vars

\* A stream with a comment line, an event line, a padded payload, an empty
\* payload, a role-only delta and [DONE] ended with both texts delivered.
C4_Witness ==
    /\ completion.state = "fulfilled" /\ ~cancelled
    /\ response.body = BodyNoise /\ wire = << >>
    /\ chunks = <<"Hello ", "World">>
    /\ completion.value.markdown = "Hello World"

\* The transport fails in this step.
TransportFails == completion'.state = "rejected" /\ completion'.error = "read failed"

\* C5 as stated: once a streaming call that is draining its stream has been
\* cancelled, and as long as the transport stays up, no further chunk is
\* emitted, the markdown stays the concatenation of the chunks emitted
\* before the cancel, and the call does not end with an exception.
C5_AsStated ==
    [][(cancelled /\ sPc \in {"reading", "processing"} /\ ~TransportFails)
       => /\ chunks' = chunks
          /\ markdown' = markdown
          /\ completion'.state # "rejected"]_vars

ReadStarts == sPc' = "reading" /\ (sPc # "reading" \/ wire' # wire)

C7_ArgumentsReassembled ==
    (completion.state = "fulfilled" /\ wire = << >>)
    => /\ \A k \in DOMAIN toolCallBuffer :
            LET entry == toolCallBuffer[k]
                whole == WholeArguments(entry.index, FragmentsOf(Arrived(response.body)))
            IN  /\ entry.arguments = whole
                /\ entry.name # ""
                   => \E j \in DOMAIN toolCalls.calls :
                         toolCalls.calls[j] = [name |-> entry.name, arguments |-> ParseJson(whole)]
       /\ response.body \in {BodyTool, BodyToolWhole}
          => toolCalls.calls = << [name |-> "search_files", arguments |-> EmptyObject],
                                  [name |-> "read_file", arguments |-> [n |-> 1]] >>

\* The arguments {"n":1} came in three fragments at index 0, with other
\* events in between, and were decoded as one object.
C7_Witness ==
    /\ completion.state = "fulfilled" /\ wire = << >> /\ response.body = BodyTool
    /\ \E k \in DOMAIN toolCallBuffer :
          /\ toolCallBuffer[k].index = 0 /\ toolCallBuffer[k].arguments = "{\"n\":1}"
    /\ \E j \in DOMAIN completion.value.toolCalls :
          completion.value.toolCalls[j] = [name |-> "read_file", arguments |-> [n |-> 1]]

\* The finalized calls are the named entries of the buffer, each once and in
\* buffer order, and the entries without a name are left out.
CallsMatch(tcb, tc, value) ==
    LET named == {k \in DOMAIN tcb : tcb[k].name # ""}
        rank(k) == Cardinality({i \in named : i <= k})
    IN  IF tcb = << >>
        THEN tc = Undefined /\ "toolCalls" \notin DOMAIN value
        ELSE /\ tc.defined /\ value.toolCalls = tc.calls
             /\ Len(tc.calls) = Cardinality(named)
             /\ \A k \in named : tc.calls[rank(k)].name = tcb[k].name

\* The indices that received a name, and all indices, among fragments.
NamedIndices(frags) == {IndexOf(frags[i]) : i \in {j \in DOMAIN frags : frags[j].name # ""}}
AllIndices(frags) == {IndexOf(frags[i]) : i \in DOMAIN frags}

\* C8: toolCalls stays undefined until the loop has been left; the result
\* then lists every buffered index that has a name exactly once and no index
\* without one; the buffer holds each index once, and after a stream read to
\* its end the named entries are exactly the indices that were ever sent a
\* name.
C8_FinalizedAtEnd ==
    [][/\ sPc' # "settled" => toolCalls' = Undefined
       /\ toolCalls' # toolCalls => sPc # "settled" /\ completion'.state = "fulfilled"
       /\ \A i, j \in DOMAIN toolCallBuffer' :
             toolCallBuffer'[i].index = toolCallBuffer'[j].index => i = j
       /\ completion'.state = "fulfilled"
          => /\ CallsMatch(toolCallBuffer', toolCalls', completion'.value)
             /\ wire' = << >>
                => LET frags == FragmentsOf(Arrived(response'.body))
                   IN  /\ {toolCallBuffer'[k].index : k \in DOMAIN toolCallBuffer'}
                          = AllIndices(frags)
                       /\ {toolCallBuffer'[k].index :
                              k \in {i \in DOMAIN toolCallBuffer' : toolCallBuffer'[i].name # ""}}
                          = NamedIndices(frags)]_vars

\* Three indices were buffered, the one without a name was dropped.
C8_Witness ==
    /\ completion.state = "fulfilled" /\ wire = << >> /\ response.body = BodyTool
    /\ Len(toolCallBuffer) = 3
    /\ \E k \in DOMAIN toolCallBuffer : toolCallBuffer[k].index = 1 /\ toolCallBuffer[k].name = ""
    /\ Len(toolCalls.calls) = 2

(***************************************************************************)
(* Claims about the registry, the discovery cache and the model filter.    *)
(***************************************************************************)
\* Caller p's updateModels replaces the registry in this step.
Replaces(p) == procs[p].pc = "available" /\ procs'[p].pc = "done" /\ registry' = procs[p].avail

\* C11 as stated: the registry only changes by being replaced as a whole,
\* by an updateModels call with its recomputed list or by setGeminiModels(m)
\* with m, so that a reader sees the previous list or the new one and never
\* an emptied registry; after setGeminiModels(m) the registry holds exactly
\* the elements of m in order.
C11_AsStated ==
    [][/\ registry' # registry
          => \/ \E p \in Callers : Replaces(p)
             \/ lastCall'.fn = "setGeminiModels" /\ registry' = lastCall'.arg
       /\ (lastCall' # lastCall /\ lastCall'.fn = "setGeminiModels")
          => registry' = lastCall'.arg]_vars

\* C12 as stated: two discoverModels(false) calls issued less than the TTL
\* apart perform exactly one catalog request between them.
C12_AsStated ==
    (/\ procs[First].pc = "done" /\ ~procs[First].force
     /\ procs[Second].pc = "done" /\ ~procs[Second].force
     /\ procs[Second].at - procs[First].at < CACHE_DURATION)
    => fetchCount = 1

\* C12 (amended): when the first call fetched the catalog successfully and a
\* discoverModels(false) is issued while that result is still the cache and
\* younger than the TTL, the second call is answered from the cache with the
\* first call's result, and the request of the first call is the only one
\* made by the two calls.
C12_OneRequestWithinTtl ==
    [][(/\ Starts(Second) /\ ~procs'[Second].force
        /\ procs[First].pc = "done" /\ procs[First].outcome = "fetched"
        /\ cache = procs[First].ret
        /\ now - cache.lastUpdated < CACHE_DURATION)
       => /\ procs'[Second].pc = "done" /\ procs'[Second].outcome = "cached"
          /\ procs'[Second].ret = procs[First].ret
          /\ fetchCount' = 1]_vars

\* The second call came one tick after the first one's successful fetch and
\* was answered from its result.
C12_Witness ==
    /\ procs[First].pc = "done" /\ ~procs[First].force /\ procs[First].outcome = "fetched"
    /\ procs[Second].pc = "done" /\ ~procs[Second].force /\ procs[Second].outcome = "cached"
    /\ procs[Second].at = procs[First].ret.lastUpdated + 1
    /\ procs[Second].ret = procs[First].ret
    /\ fetchCount = 1

\* C13 as stated: every discoverModels(true) performs a catalog request.
C13_AsStated ==
    [][\A p \in Callers :
        (Starts(p) /\ procs'[p].op = "discoverModels" /\ procs'[p].force)
        => fetchCount' = fetchCount + 1]_vars

\* C13 (amended): with an API key configured, discoverModels(true) issues a
\* catalog request whatever the age or presence of the cache; without a key
\* it issues none and fails in fetchModelsFromAPI before the request.
C13_ForcedRefreshFetches ==
    [][\A p \in Callers :
        (Starts(p) /\ procs'[p].op = "discoverModels" /\ procs'[p].force)
        => IF apiKey
           THEN fetchCount' = fetchCount + 1 /\ procs'[p].pc = "fetching"
           ELSE fetchCount' = fetchCount /\ procs'[p].pc = "keyError"]_vars

\* A forced call has its request in flight although the cache is one tick
\* old.
C13_Witness ==
    /\ procs[Main].op = "discoverModels" /\ procs[Main].force /\ procs[Main].pc = "fetching"
    /\ cache # NoCache /\ now = cache.lastUpdated + 1
    /\ fetchCount = 2

\* The result of the latest attempt whose catalog request succeeded, NoCache
\* when none did.
MostRecentSuccess ==
    IF procs[Second].result # NoCache THEN procs[Second].result ELSE procs[First].result

\* The attempt of caller p builds its successful result in this step.
Succeeds(p) == procs[p].pc = "fetching" /\ procs'[p].pc = "persistLoad"

DiscoveredBeforeRestart == procs[First].pc = "gone" /\ procs[First].outcome = "fetched"

\* C15: after a successful discovery and a restart, loadCache leaves the
\* cache equal to the persisted result, timestamp included, and the first
\* discoverModels(false) of the new process, made while that timestamp is
\* within the TTL, returns it without a catalog request.
C15_PersistReloadRoundTrip ==
    [][/\ (DiscoveredBeforeRestart /\ loader # NoData /\ loader' = NoData)
          => /\ cache' = procs[First].ret
             /\ cache'.lastUpdated = procs[First].ret.lastUpdated
             /\ cache' = CacheOf(OrEmpty(durable))
       /\ (/\ DiscoveredBeforeRestart /\ Initialized
           /\ procs[Second].n = 0 /\ Starts(Second) /\ ~procs'[Second].force
           /\ now - procs[First].ret.lastUpdated < CACHE_DURATION)
          => /\ procs'[Second].pc = "done" /\ procs'[Second].outcome = "cached"
             /\ procs'[Second].ret = procs[First].ret
             /\ fetchCount' = fetchCount]_vars

\* The new process answered its first call from the reloaded cache, one tick
\* after the old process had fetched it.
C15_Witness ==
    /\ DiscoveredBeforeRestart /\ Initialized
    /\ procs[Second].n = 1 /\ procs[Second].pc = "done" /\ procs[Second].outcome = "cached"
    /\ procs[Second].ret = procs[First].ret
    /\ procs[Second].at = procs[First].ret.lastUpdated + 1
    /\ fetchCount = 1

\* clearCache() runs in this step.
Clears == cache # NoCache /\ cache' = NoCache

\* The cache that the first call filled has been cleared.
ClearedAfterFetch == procs[First].outcome = "fetched" /\ cache = NoCache

\* C16 as stated: clearCache leaves the durable record alone and the next
\* discoverModels(false) issues a catalog request.
C16_AsStated ==
    [][/\ Clears => durable' = durable
       /\ (ClearedAfterFetch /\ Starts(Second) /\ ~procs'[Second].force)
          => fetchCount' = fetchCount + 1]_vars

\* C16 (amended): clearCache changes the in-memory cache and nothing else,
\* the durable record included; the next discoverModels(false) makes a new
\* attempt, however young the cleared result was: a catalog request when an
\* API key is configured, the key error without a request otherwise.
C16_ClearCacheIsInMemoryOnly ==
    [][/\ Clears
          => /\ durable' = durable /\ loader' = loader
             /\ fetchCount' = fetchCount /\ procs' = procs
       /\ (ClearedAfterFetch /\ Starts(Second) /\ ~procs'[Second].force)
          => IF apiKey
             THEN fetchCount' = fetchCount + 1 /\ procs'[Second].pc = "fetching"
             ELSE fetchCount' = fetchCount /\ procs'[Second].pc = "keyError"]_vars

\* The fetched result was cleared from memory, is still in the durable
\* record, and a discoverModels(false) issued within its TTL has its own
\* request in flight.
C16_Witness ==
    /\ ClearedAfterFetch
    /\ CacheOf(OrEmpty(durable)) = procs[First].ret
    /\ procs[Second].pc = "fetching" /\ ~procs[Second].force
    /\ procs[Second].at - procs[First].ret.lastUpdated < CACHE_DURATION
    /\ fetchCount = 2

\* C17: with discovery disabled, getAvailableModels returns at once the
\* static baseline without its image-generation (and denylisted) models, and
\* makes no discovery attempt: no catalog request, no change of the cache,
\* of the durable record or of a loadCache in flight.
C17_DisabledIsStatic ==
    [][\A p \in Callers :
        (Starts(p) /\ procs'[p].op = "getAvailableModels" /\ ~enabled)
        => /\ procs'[p].pc = "done" /\ ~procs'[p].threw
           /\ procs'[p].ret = FilterModelsForVersion(StaticModels, FALSE)
           /\ \A i \in 1..Len(procs'[p].ret) : ~IsImageModel(procs'[p].ret[i])
           /\ procs'[p].disc = NoCache
           /\ fetchCount' = fetchCount
           /\ cache' = cache /\ durable' = durable /\ loader' = loader]_vars

\* A getAvailableModels call returned the filtered baseline with discovery
\* disabled, an API key configured and a forced refresh asked for.
C17_Witness ==
    /\ ~enabled /\ apiKey
    /\ procs[Main].op = "getAvailableModels" /\ procs[Main].force
    /\ procs[Main].pc = "done" /\ procs[Main].outcome = "disabled"
    /\ procs[Main].ret = StaticTextModels /\ Len(procs[Main].ret) > 0
    /\ fetchCount = 0 /\ cache = NoCache /\ durable = NoData

(***************************************************************************)
(* Claims about filterModelsForVersion (SpecFilter).                       *)
(***************************************************************************)
\* The id contains, in any letter case, one of the specialised family words.
Denylisted(m) ==
    \E w \in {"embedding", "whisper", "tts", "transcribe", "moderation", "guard", "speech"} :
        Includes(ToLowerCase(Chars(m.value)), Chars(w))

\* The model is flagged as image-capable or its id names image or vision.
ImageCapable(m) ==
    \/ m.supportsImageGeneration
    \/ \E w \in {"image", "vision"} : Includes(ToLowerCase(Chars(m.value)), Chars(w))

\* The models of a list.
Range(s) == {s[i] : i \in 1..Len(s)}

\* The elements of s that satisfy Keep, in the order of s.
Kept(s, Keep(_)) == SelectSeq(s, Keep)

\* C18: no model whose id contains a denylisted substring, in any letter
\* case, is in the text output or in the image output of
\* filterModelsForVersion, even when it is flagged or named image-capable.
C18_DenylistedExcluded ==
    lastCall.fn = "filterModelsForVersion"
    => \A out \in {lastCall.text, lastCall.image} :
          out.called => \A m \in Range(out.models) : ~Denylisted(m)

\* Both outputs were computed for an input that holds a denylisted model
\* named for vision, a denylisted flagged model and a model that passes.
C18_Witness ==
    /\ lastCall.fn = "filterModelsForVersion"
    /\ lastCall.text.called /\ lastCall.image.called
    /\ \E m \in Range(lastCall.arg) : Denylisted(m) /\ m.supportsImageGeneration
    /\ \E m \in Range(lastCall.arg) : Denylisted(m) /\ m.value = "Llama-Guard-3-11B-Vision"
    /\ lastCall.text.models # << >>

ReturnedFiltered(p) ==
    /\ procs[p].op = "getImageGenerationModels" /\ procs[p].pc = "done"
    /\ procs[p].outcome # "disabled"
    /\ procs[p].disc.success /\ Len(procs[p].disc.models) > 0

\* C20 as stated: getImageGenerationModels never returns an empty list as
\* the outcome of filtering; when the filter leaves no candidate the result
\* is the static image-only list.
C20_AsStated ==
    \A p \in Callers :
        ReturnedFiltered(p)
        => /\ procs[p].ret # << >>
           /\ \/ procs[p].ret = StaticImageModels
              \/ \A i \in 1..Len(procs[p].ret) : IsImageModel(procs[p].ret[i])

(***************************************************************************)
(* Claims about the merge with the static baseline (SpecMerge).            *)
(***************************************************************************)
\* The positions of list s that hold id.
PositionsOf(s, id) == {i \in 1..Len(s) : s[i].value = id}

\* merged is the union of dynamic and static keyed by id, the dynamic entry
\* kept where both hold an id.
IsUnionById(merged, dynamic, static) ==
    /\ Values(merged) = Values(dynamic) \cup Values(static)
    /\ \A d \in Range(dynamic) :
          /\ Cardinality(PositionsOf(merged, d.value)) = 1
          /\ \A i \in PositionsOf(merged, d.value) : merged[i] = d
    /\ \A st \in Range(static) :
          st.value \notin Values(dynamic)
          => /\ Cardinality(PositionsOf(merged, st.value)) = 1
             /\ \A i \in PositionsOf(merged, st.value) : merged[i] = st

\* C21: the merge of a dynamic list with the static baseline is a union
\* keyed by id: each static id the dynamic list lacks occurs once, with its
\* roles and flags; each dynamic id occurs once; where both lists hold an id
\* the dynamic entry is the one kept.
C21_MergeIsUnionById ==
    lastCall.fn = "merge"
    => \A out \in {lastCall.inline, lastCall.mapper} :
          out.called => IsUnionById(out.models, lastCall.arg, StaticModels)

\* Both merges ran on a list that holds a static id and a new one.
C21_Witness ==
    /\ lastCall.fn = "merge"
    /\ lastCall.inline.called /\ lastCall.mapper.called
    /\ "compound" \in Values(lastCall.arg) /\ "a" \in Values(lastCall.arg)
    /\ Len(lastCall.inline.models) = Len(StaticModels) + 1
    /\ \E i \in 1..Len(lastCall.inline.models) :
          lastCall.inline.models[i] = Model("compound", "compound", {})

\* updateModels of caller p resumes with the available models and returns.
UpdateFinishes(p) ==
    procs[p].op = "updateModels" /\ procs[p].pc = "available" /\ procs'[p].pc = "done"

\* C22: when the recomputed available models and the registry have the same
\* size and the same set of ids, in whatever order, updateModels returns the
\* settings it was given with settingsChanged = false and an empty change
\* list, and leaves the registry and the settings as they were.
C22_NoChangeIsNoOp ==
    [][\A p \in Callers :
        (/\ UpdateFinishes(p)
         /\ Len(procs[p].avail) = Len(registry)
         /\ Values(procs[p].avail) = Values(registry))
        => /\ ~procs'[p].threw
           /\ procs'[p].ret.updatedSettings = settings
           /\ ~procs'[p].ret.settingsChanged
           /\ procs'[p].ret.changedSettingsInfo = << >>
           /\ registry' = registry
           /\ settings' = settings]_vars

\* An updateModels call found the ids of the registry in another order and
\* with other labels, and reported no change although the settings name a
\* model the registry lacks.
C22_Witness ==
    /\ procs[Main].op = "updateModels" /\ procs[Main].pc = "done"
    /\ Len(procs[Main].avail) = Len(registry)
    /\ Values(procs[Main].avail) = Values(registry)
    /\ \E i \in 1..Len(registry) : procs[Main].avail[i].value # registry[i].value
    /\ ~procs[Main].ret.settingsChanged
    /\ procs[Main].ret.updatedSettings = settings
    /\ settings.imageModelName \notin Values(registry) \cup {""}

\* The name under key in settings s must be replaced on registry reg.
Stale(reg, s, key) == s[key] = "" \/ s[key] \notin Values(reg)

\* The image model of settings s must be cleared on registry reg.
StaleImage(reg, s) == s.imageModelName # "" /\ s.imageModelName \notin Values(reg)

\* C23: on a registry that holds a model, getUpdatedModelSettings replaces
\* each of the chat, summary and completions names that is empty or not
\* registered by the role's default, clears a non-empty unregistered image
\* name, keeps every other name, reports settingsChanged exactly when it
\* replaced or cleared one, and leaves the object it was given as it was; on
\* the empty registry the role's default does not exist and the call throws,
\* again without touching that object.
C23_SettingsRecomputed ==
    lastCall.fn = "getUpdatedModelSettings"
    => LET s == lastCall.arg
           r == lastCall.out
       IN  /\ lastCall.after = s
           /\ r.threw <=> registry = << >>
           /\ ~r.threw
              => /\ \A key \in NameKeys :
                      r.updatedSettings[key] =
                          IF Stale(registry, s, key)
                          THEN GetDefaultModelForRole(registry, RoleOf(key)).value
                          ELSE s[key]
                 /\ r.updatedSettings.imageModelName =
                        IF StaleImage(registry, s) THEN "" ELSE s.imageModelName
                 /\ r.settingsChanged <=>
                        \/ \E key \in NameKeys : Stale(registry, s, key)
                        \/ StaleImage(registry, s)
                 /\ r.settingsChanged <=> r.changedSettingsInfo # << >>

\* The chat name was kept, the empty summary name and the unregistered
\* completions name were replaced, and the registered image name was kept.
C23_Witness ==
    /\ lastCall.fn = "getUpdatedModelSettings" /\ ~lastCall.out.threw
    /\ lastCall.arg.chatModelName = "a" /\ lastCall.out.updatedSettings.chatModelName = "a"
    /\ lastCall.arg.summaryModelName = "" /\ lastCall.out.updatedSettings.summaryModelName = "b"
    /\ lastCall.arg.completionsModelName = "x"
    /\ lastCall.out.updatedSettings.completionsModelName = "a"
    /\ lastCall.out.updatedSettings.imageModelName = "b"
    /\ lastCall.out.settingsChanged

\* Caller p's refreshModels returns in this step.
RefreshReturns(p) == procs[p].refresh /\ ~procs'[p].refresh

StatusReturns(p) ==
    procs'[p].op = "getDiscoveryStatus" /\ procs[p].pc # "done" /\ procs'[p].pc = "done"

\* C25 as stated: with discovery disabled getDiscoveryStatus reports
\* {enabled: false, working: false} without a discovery attempt; with
\* discovery enabled working is true exactly when the most recent discovery
\* attempt succeeded, and after a failed attempt the report is
\* working = false with the attempt's error string.
C25_AsStated ==
    [][\A p \in Callers :
        StatusReturns(p)
        => IF ~enabled
           THEN /\ procs'[p].ret = [enabled |-> FALSE, working |-> FALSE]
                /\ fetchCount' = fetchCount /\ cache' = cache /\ durable' = durable
           ELSE /\ procs'[p].ret.enabled
                /\ procs'[p].ret.working <=> procs'[p].outcome \notin Failed
                /\ procs'[p].outcome \in Failed
                   => procs'[p].ret.error = ErrorMessage(procs'[p].outcome)]_vars

\* What a body delivered in one read leaves behind: the chunks, the tool-call
\* buffer, and whether every payload parsed.
OneReadChunks(body) == TextsOf(Arrived(body))
OneReadBuffer(body) == AccumulateAll(<< >>, FragmentsOf(Arrived(body)))
OneReadParses(body) ==
    LET ls == LinesOf(EventsOf(body))
    IN  \A i \in 1..Len(ls) : NoOpLine(ls[i]) \/ JsonParse(DataOf(ls[i])).ok

\* C26: however the body is split into reads, what does not yet form a
\* complete event is kept and prefixed to the next read: once the body has
\* been read to its end the buffer holds just its unterminated tail, and an
\* uncancelled call ends as it would had the body come in a single read,
\* with the same chunks in the same order, the same markdown and the same
\* tool calls, or with the same parse failure after the same chunks.
C26_ReadBoundaryIndependence ==
    /\ (sPc = "reading" /\ wire = << >>) => buffer = RestOf(response.body)
    /\ (sPc = "settled" /\ ~cancelled /\ response # NoResponse /\ wire = << >>
        /\ lines = << >>)
       => LET body == response.body
          IN  \/ /\ completion.state = "fulfilled"
                 /\ OneReadParses(body)
                 /\ chunks = OneReadChunks(body)
                 /\ toolCallBuffer = OneReadBuffer(body)
                 /\ completion.value =
                        Result(Concat(OneReadChunks(body)), FinalizeToolCalls(OneReadBuffer(body)))
              \/ /\ completion.state = "rejected"
                 /\ completion.error = "SyntaxError"
                 /\ ~OneReadParses(body)
                 /\ chunks = OneReadChunks(body)
              \/ /\ completion.state = "rejected"
                 /\ completion.error # "SyntaxError"

\* A read ended inside the JSON payload of the second event: the first text
\* has been delivered, and the prefix and the half payload wait in the buffer.
C26_Witness ==
    /\ sPc = "reading" /\ ~cancelled
    /\ response # NoResponse /\ response.ok /\ response.body = BodyText
    /\ chunks = <<"Hello ">>
    /\ buffer = <<"da", "ta: ", ChunkWorld[1]>>
    /\ wire # << >>

\* The arguments strings that are valid JSON, with their decoded values.
ValidJson == {"{\"n\":1}", "{\"query\":\"abc\"}", "{}"}
DecodedValue(v) ==
    CASE v = "{\"n\":1}" -> [n |-> 1]
      [] v = "{\"query\":\"abc\"}" -> [query |-> "abc"]
      [] OTHER -> EmptyObject

\* A settled call decoded every arguments string it was handed by `expected`:
\* those of the message in the non-streaming path, those accumulated under a
\* name in the streaming path; and no call failed over its arguments: a
\* non-streaming call with a decodable body is fulfilled, and a streaming
\* call rejected by JSON.parse was sent an undecodable event payload.
DecodesBy(expected(_)) ==
    /\ (sPc = "settled" /\ payload # NoPayload /\ ~payload.stream /\ response # NoResponse
        /\ response.json.ok)
       => LET sent == response.json.message.tool_calls
          IN  /\ completion.state = "fulfilled"
              /\ ("toolCalls" \in DOMAIN completion.value) = (sent # << >>)
              /\ sent # << >>
                 => /\ Len(completion.value.toolCalls) = Len(sent)
                    /\ \A i \in 1..Len(sent) :
                          /\ completion.value.toolCalls[i].name = sent[i].name
                          /\ completion.value.toolCalls[i].arguments
                                = expected(sent[i].arguments)
    /\ (completion.state = "fulfilled" /\ payload.stream)
       => LET named == {k \in DOMAIN toolCallBuffer : toolCallBuffer[k].name # ""}
              rank(k) == Cardinality({i \in named : i <= k})
          IN  \A k \in named :
                 toolCalls.calls[rank(k)].arguments = expected(toolCallBuffer[k].arguments)
    /\ (completion.state = "rejected" /\ payload # NoPayload /\ payload.stream
        /\ completion.error = "SyntaxError")
       => ~OneReadParses(response.body)

AsStatedArguments(v) == IF v \in ValidJson THEN DecodedValue(v) ELSE [raw |-> v]
PermissiveArguments(v) ==
    IF v = "" THEN EmptyObject
    ELSE IF v \in ValidJson THEN DecodedValue(v) ELSE [raw |-> v]

\* C27 as stated: in both paths an arguments string that is valid JSON is
\* handed over decoded and every other string as {raw: <the string>}, and
\* malformed arguments never fail the call.
C27_AsStated == DecodesBy(AsStatedArguments)

\* C27: in both paths an empty (or absent) arguments string is handed over
\* as {}, a valid JSON string as its decoded value and every other string as
\* {raw: <the string>}; decoding never raises, so malformed arguments never
\* fail the call.
C27_PermissiveDecoding == DecodesBy(PermissiveArguments)

\* A non-streaming call was fulfilled with one call decoded and one kept
\* raw.
C27_Witness ==
    /\ sPc = "settled" /\ payload # NoPayload /\ ~payload.stream
    /\ completion.state = "fulfilled"
    /\ response.json.message.tool_calls =
          << ToolCall("search_files", "{\"query\":\"abc\"}"), ToolCall("read_file", "not json") >>
    /\ completion.value.toolCalls =
          << [name |-> "search_files", arguments |-> [query |-> "abc"]],
             [name |-> "read_file", arguments |-> [raw |-> "not json"]] >>

\* The error carries the status code and the raw body of the response.
Carries(error, r) ==
    \E prefix \in {"Groq request failed: ", "Groq streaming request failed: "} :
       error = prefix \o r.status \o " " \o Concat(r.body)

ChatDefault(reg) ==
    LET claim == {i \in DOMAIN reg : "chat" \in reg[i].defaultForRoles}
    IN  IF claim # {} THEN reg[CHOOSE i \in claim : \A j \in claim : i <= j].value
        ELSE reg[1].value

\* C29: the payload of a call, streaming or not, names the request's model
\* when the request has one, else the client's configured model when there
\* is one, else the registry's default for the chat role; with either of the
\* first two the registry plays no part, even when it is empty; the call is
\* rejected while building exactly when both are absent and the registry is
\* empty, with the registry's error.
C29_ModelResolution ==
    sPc # "idle" =>
       /\ request.model # "" => payload # NoPayload /\ payload.model = request.model
       /\ (request.model = "" /\ config.model # "")
          => payload # NoPayload /\ payload.model = config.model
       /\ (request.model = "" /\ config.model = "" /\ registry # << >>)
          => payload # NoPayload /\ payload.model = ChatDefault(registry)
       /\ (request.model = "" /\ config.model = "" /\ registry = << >>)
          => /\ payload = NoPayload /\ sPc = "settled" /\ httpAttempts = 0
             /\ completion = Rejected("CRITICAL: GEMINI_MODELS array is empty. Please configure available models.")

\* A request with its own model went out on the empty registry of a client
\* configured with another model.
C29_Witness ==
    /\ registry = << >> /\ config.model = "compound"
    /\ request.model = "llama-3.1-8b-instant"
    /\ payload # NoPayload /\ payload.model = "llama-3.1-8b-instant"
    /\ httpAttempts = 1

OverlapStarts(p, q) ==
    /\ p # q
    /\ procs[q].pc = "fetching"
    /\ procs'[p].n = procs[p].n + 1
    /\ procs'[p].op = "discoverModels" /\ ~procs'[p].force
    /\ ~IsCacheValid(cache, now)

\* Caller p was issued discoverModels(false) while q's request, which later
\* succeeded, was in flight, and both calls have returned.
OverlappedAndDone(p, q) ==
    /\ p # q
    /\ procs[p].pc = "done" /\ procs[q].pc = "done"
    /\ ~procs[p].force
    /\ procs[q].outcome = "fetched"
    /\ procs[q].at <= procs[p].at /\ procs[p].at < procs[q].ret.lastUpdated

\* C31 as stated: a discoverModels(false) call issued while another call's
\* catalog request is in flight, with no valid cache, adds no second request,
\* and both calls return the same result.
C31_AsStated ==
    /\ [][\A p, q \in Callers : OverlapStarts(p, q) => fetchCount' = fetchCount]_vars
    /\ [](\A p, q \in Callers : OverlappedAndDone(p, q) => procs[p].ret = procs[q].ret)

(***************************************************************************)
(* The web tools: DeepResearchTool, GoogleSearchTool and WebFetchTool.     *)
(* One execute call is kept in lastCall; every await is a step boundary.   *)
(***************************************************************************)
ToolNames == {"deep_research", "google_search", "web_fetch"}

\* The params a caller passes to execute.
ToolParams(tool) ==
    CASE tool = "deep_research" ->
            {[topic |-> t, outputFile |-> f] : t \in {"AI", "", " "},
                                               f \in {"", "Research/ai", "notes.md"}}
      [] tool = "google_search" -> {[query |-> q] : q \in {"test", ""}}
      [] tool = "web_fetch" -> {[url |-> "https://example.com", query |-> q] : q \in {"summary", ""}}

\* What a rejected promise carries: an Error with a message, or another value.
Thrown == {[isError |-> TRUE, message |-> "network"], [isError |-> FALSE]}
NoThrown == [null |-> TRUE]

\* error instanceof Error ? error.message : 'Unknown error'
MessageOf(error) == IF error.isError THEN error.message ELSE "Unknown error"

\* The prefix of the catch block's error, per tool.
FailedPrefix(tool) ==
    CASE tool = "deep_research" -> "Deep research failed: "
      [] tool = "google_search" -> "Web search failed: "
      [] tool = "web_fetch" -> "Web fetch failed: "

\* The prefix of the error returned for a completion response that is not ok.
NotOkPrefix(tool) ==
    CASE tool = "deep_research" -> "Deep research failed: "
      [] tool = "google_search" -> "Web search failed: "
      [] tool = "web_fetch" -> "Groq analysis failed: "

\* A catch block that lets the error go on to the caller.
ToolCatch_Rethrow(tool, error) == [threw |-> TRUE, error |-> MessageOf(error)]

\* catch (error) { return { success: false, error: `<prefix>${message}` } }
ToolCatch(tool, error) == [success |-> FALSE, error |-> FailedPrefix(tool) \o MessageOf(error)]

\* { success: false, error }
ToolFailure(error) == [success |-> FALSE, error |-> error]

\* The answers of requestUrlWithRetry and of POST /chat/completions.
PageResponses ==
    {[status |-> "200", text |-> "<title>Example</title>"],
     [status |-> "403", text |-> "Denied"],
     [status |-> "404", text |-> ""]}
ToolResponses ==
    {[ok |-> TRUE, status |-> "200", body |-> "", json |-> [ok |-> TRUE, content |-> c]] :
        c \in {"answer text", ""}}
    \cup {[ok |-> TRUE, status |-> "200", body |-> "<html>", json |-> [ok |-> FALSE]],
          [ok |-> FALSE, status |-> "500", body |-> "internal error", json |-> [ok |-> FALSE]],
          [ok |-> FALSE, status |-> "429", body |-> "rate limit", json |-> [ok |-> FALSE]]}
NoToolResponse == [null |-> TRUE]

\* typeof params.topic !== 'string' || params.topic.trim().length === 0
TopicMissing(topic) == topic \in {"", " "}

\* params.outputFile.endsWith('.md') ? params.outputFile : `${params.outputFile}.md`
Normalized(outputFile) ==
    IF outputFile = "notes.md" THEN outputFile ELSE outputFile \o ".md"

\* The state of an execute call: where it is suspended, the HTTP requests it
\* has issued, the page and the completion response it received, the error
\* its catch block caught, and what it returned.
ToolCallAt(tool, params, pc, requests) ==
    [fn |-> "execute", tool |-> tool, params |-> params, pc |-> pc, requests |-> requests,
     hadKey |-> apiKey, page |-> NoToolResponse, response |-> NoToolResponse,
     caught |-> NoThrown, out |-> NotCalled]

ToolReturns(call, out) == [call EXCEPT !.pc = "done", !.out = out]
ToolCatches(call, error) ==
    [call EXCEPT !.pc = "done", !.caught = error, !.out = ToolCatch(call.tool, error)]

\* execute up to its first await.
Execute(tool, params) ==
    LET call == ToolCallAt(tool, params, "start", 0)
    IN  IF tool = "deep_research" /\ TopicMissing(params.topic)
        THEN ToolReturns(call, ToolFailure("Topic is required and must be a non-empty string"))
        ELSE IF ~apiKey
        THEN ToolReturns(call, ToolFailure("Groq API key not configured"))
        ELSE [call EXCEPT !.pc = IF tool = "web_fetch" THEN "page" ELSE "fetch",
                          !.requests = 1]

CallExecute(tool, params) ==
    /\ lastCall = NoCall
    /\ lastCall' = Execute(tool, params)
    /\ UNCHANGED <<enabled, registry, settings, discVars, streamVars>>

\* WebFetchTool: requestUrlWithRetry resolves; a status other than 200 is
\* returned as an error, otherwise the summarizing request is sent.
PageArrives(r) ==
    /\ lastCall # NoCall /\ lastCall.fn = "execute" /\ lastCall.pc = "page"
    /\ lastCall' =
          IF r.status # "200"
          THEN ToolReturns([lastCall EXCEPT !.page = r],
                           ToolFailure("HTTP " \o r.status \o ": "
                                       \o (IF r.text # "" THEN r.text ELSE "Failed to fetch URL")))
          ELSE [lastCall EXCEPT !.page = r, !.pc = "fetch", !.requests = @ + 1]
    /\ UNCHANGED <<enabled, registry, settings, discVars, streamVars>>

\* requestUrlWithRetry or fetch rejects: the catch block returns.
ToolRequestRejects(error) ==
    /\ lastCall # NoCall /\ lastCall.fn = "execute" /\ lastCall.pc \in {"page", "fetch"}
    /\ lastCall' = ToolCatches(lastCall, error)
    /\ UNCHANGED <<enabled, registry, settings, discVars, streamVars>>

\* fetch resolves: a response that is not ok leads to `await response.text()`,
\* any other to `await response.json()`.
ToolResponseArrives(r) ==
    /\ lastCall # NoCall /\ lastCall.fn = "execute" /\ lastCall.pc = "fetch"
    /\ lastCall' = [lastCall EXCEPT !.response = r, !.pc = IF r.ok THEN "json" ELSE "text"]
    /\ UNCHANGED <<enabled, registry, settings, discVars, streamVars>>

\* response.text() resolves: the status and the body are returned as error.
ToolTextRead ==
    /\ lastCall # NoCall /\ lastCall.fn = "execute" /\ lastCall.pc = "text"
    /\ lastCall' = ToolReturns(lastCall,
                       ToolFailure(NotOkPrefix(lastCall.tool) \o lastCall.response.status
                                   \o " " \o lastCall.response.body))
    /\ UNCHANGED <<enabled, registry, settings, discVars, streamVars>>

\* response.text(), response.json() or adapter.write() rejects: the catch
\* block returns.  A body that is not JSON rejects json() with a SyntaxError.
ToolAwaitRejects(error) ==
    /\ lastCall # NoCall /\ lastCall.fn = "execute" /\ lastCall.pc \in {"text", "json", "write"}
    /\ lastCall.pc = "json" => ~lastCall.response.json.ok
    /\ lastCall' = ToolCatches(lastCall, error)
    /\ UNCHANGED <<enabled, registry, settings, discVars, streamVars>>

\* What each tool makes of the decoded body's first message content.
ToolAfterJson(call, content) ==
    CASE call.tool = "deep_research" ->
            IF content = "" THEN ToolReturns(call, ToolFailure("No report generated"))
            ELSE IF call.params.outputFile # "" THEN [call EXCEPT !.pc = "write"]
            ELSE ToolReturns(call, [success |-> TRUE,
                                    data |-> [topic |-> call.params.topic, report |-> content,
                                              outputFile |-> ""]])
      [] call.tool = "google_search" ->
            ToolReturns(call, [success |-> TRUE,
                               data |-> [query |-> call.params.query,
                                         answer |-> IF content # "" THEN content
                                                    ELSE "No answer returned."]])
      [] call.tool = "web_fetch" ->
            IF content = ""
            THEN ToolReturns(call, ToolFailure("No analysis generated from page content"))
            ELSE ToolReturns(call, [success |-> TRUE,
                                    data |-> [url |-> call.params.url, query |-> call.params.query,
                                              content |-> content]])

\* response.json() resolves.
ToolJsonRead ==
    /\ lastCall # NoCall /\ lastCall.fn = "execute" /\ lastCall.pc = "json"
    /\ lastCall.response.json.ok
    /\ lastCall' = ToolAfterJson(lastCall, lastCall.response.json.content)
    /\ UNCHANGED <<enabled, registry, settings, discVars, streamVars>>

\* DeepResearchTool: adapter.write(normalized, report) resolves.
ToolWriteDone ==
    /\ lastCall # NoCall /\ lastCall.fn = "execute" /\ lastCall.pc = "write"
    /\ lastCall' = ToolReturns(lastCall,
                       [success |-> TRUE,
                        data |-> [topic |-> lastCall.params.topic,
                                  report |-> lastCall.response.json.content,
                                  outputFile |-> Normalized(lastCall.params.outputFile)]])
    /\ UNCHANGED <<enabled, registry, settings, discVars, streamVars>>

InitTools == InitDiscovery

NextTools ==
    \/ \E tool \in ToolNames : \E params \in ToolParams(tool) : CallExecute(tool, params)
    \/ \E r \in PageResponses : PageArrives(r)
    \/ \E error \in Thrown : ToolRequestRejects(error)
    \/ \E r \in ToolResponses : ToolResponseArrives(r)
    \/ ToolTextRead
    \/ \E error \in Thrown : ToolAwaitRejects(error)
    \/ ToolJsonRead
    \/ ToolWriteDone

SpecTools == InitTools /\ [][NextTools]_vars

(***************************************************************************)
(* Claims about the web tools (SpecTools).                                 *)
(***************************************************************************)
\* An execute call has returned.
Executed == lastCall # NoCall /\ lastCall.fn = "execute" /\ lastCall.pc = "done"

\* The result is {success: false, error: <a string>}.
IsFailure(out) == DOMAIN out = {"success", "error"} /\ ~out.success

\* What every returned call shows, whatever its params: a result object and
\* never an exception; a caught exception and a response that is not OK
\* come back as {success: false, error}, the latter with status and body.
FailuresReturned ==
    Executed =>
       /\ "success" \in DOMAIN lastCall.out
       /\ lastCall.caught # NoThrown
          => /\ IsFailure(lastCall.out)
             /\ lastCall.out.error = FailedPrefix(lastCall.tool) \o MessageOf(lastCall.caught)
       /\ (lastCall.caught = NoThrown /\ lastCall.response # NoToolResponse
           /\ ~lastCall.response.ok)
          => /\ IsFailure(lastCall.out)
             /\ \E prefix \in {"Deep research failed: ", "Web search failed: ",
                               "Groq analysis failed: "} :
                   lastCall.out.error
                      = prefix \o lastCall.response.status \o " " \o lastCall.response.body
       /\ (lastCall.page # NoToolResponse /\ lastCall.page.status # "200")
          => IsFailure(lastCall.out) /\ lastCall.requests = 1

\* The call returned the API key error without a request.
KeyErrorReturned ==
    /\ lastCall.out = [success |-> FALSE, error |-> "Groq API key not configured"]
    /\ lastCall.requests = 0

\* C32 as stated: execute never throws; without an API key every call
\* returns {success: false} with an error naming the API key and issues no
\* request; exceptions and non-OK responses are returned as failures.
C32_AsStated ==
    /\ FailuresReturned
    /\ (Executed /\ ~lastCall.hadKey) => KeyErrorReturned

\* C32: execute never throws; without an API key every call returns
\* {success: false} and issues no request, with an error naming the API key
\* unless deep_research was given a missing or blank topic, which is reported
\* first; exceptions and non-OK responses are returned as failures.
C32_ToolsNeverThrow ==
    /\ FailuresReturned
    /\ (Executed /\ ~lastCall.hadKey)
       => IF lastCall.tool = "deep_research" /\ lastCall.params.topic \in {"", " "}
          THEN /\ lastCall.out = [success |-> FALSE,
                                  error |-> "Topic is required and must be a non-empty string"]
               /\ lastCall.requests = 0
          ELSE KeyErrorReturned

\* web_fetch got its page, the summarizing request was rejected with a value
\* that is no Error, and the call returned a failure after two requests.
C32_Witness ==
    /\ Executed /\ lastCall.tool = "web_fetch" /\ lastCall.hadKey
    /\ lastCall.page # NoToolResponse /\ lastCall.page.status = "200"
    /\ lastCall.caught = [isError |-> FALSE]
    /\ lastCall.out = [success |-> FALSE, error |-> "Web fetch failed: Unknown error"]
    /\ lastCall.requests = 2

\* C33 as stated: whatever discovery answered, a step in which updateModels
\* finishes leaves at least one model in the registry and does not throw, so
\* that getDefaultModelForRole finds a default for every role afterwards.
C33_AsStated ==
    [][\A p \in Callers :
          (procs[p].op = "updateModels" /\ procs[p].pc = "available" /\ procs'[p].pc = "done")
          => /\ Len(registry') > 0
             /\ ~procs'[p].threw
             /\ \A role \in ModelRoles : ~GetDefaultModelForRole(registry', role).threw]_vars

\* Every call issued has returned, and both were issued.
AllReturned == \A p \in Callers : procs[p].n = 1 /\ procs[p].pc = "done"

\* Both calls fetched successfully and overlapped: each was issued before
\* the other had returned its result (stamped at the end of its fetch).
OverlappingSuccesses ==
    /\ AllReturned
    /\ \A p \in Callers : procs[p].outcome = "fetched"
    /\ \A p, q \in Callers : procs[p].at <= procs[q].ret.lastUpdated

\* The latest of the results the calls produced.
LatestResult(r) ==
    /\ \E p \in Callers : r = procs[p].ret
    /\ \A q \in Callers : procs[q].ret.lastUpdated <= r.lastUpdated

\* C34 as stated: once overlapping successful calls have all returned, the
\* durable record and the in-memory cache are the same result, the one with
\* the latest lastUpdated.
C34_AsStated ==
    OverlappingSuccesses
    => /\ durable # NoData
       /\ CacheOf(durable) = cache
       /\ LatestResult(cache)
       /\ LatestResult(CacheOf(durable))

\* Caller p's persistCache performs its saveData in this step.
Persists(p) == procs[p].pc = "persistSave" /\ procs'[p].pc # "persistSave"

\* C35 as stated: the save of persistCache changes only the
\* modelDiscoveryCache entry of the blob: every other key is still there
\* afterwards with the value its last writer gave it, whatever was saved
\* between persistCache's load and its save.
C35_AsStated ==
    [][\A p \in Callers :
          Persists(p)
          => \A k \in DOMAIN OrEmpty(durable) \ {"modelDiscoveryCache"} :
                /\ k \in DOMAIN durable'
                /\ durable'[k] = durable[k]]_vars

\* C36: the registry an updateModels call leaves shows no change against the
\* list that call was given, so a second call with the same options and the
\* same discovery result skips the update; and a call that finds the registry
\* equal to its list, as a first call with that list left it, returns
\* settingsChanged = false with no change listed and leaves the registry as
\* it is.
C36_UpdateIsIdempotent ==
    [][\A p \in Callers :
          UpdateFinishes(p)
          => /\ ~DetectModelChanges(procs[p].avail, registry')
             /\ registry = procs[p].avail
                => /\ registry' = registry
                   /\ ~procs'[p].threw
                   /\ ~procs'[p].ret.settingsChanged
                   /\ procs'[p].ret.changedSettingsInfo = << >>
                   /\ procs'[p].ret.updatedSettings = settings]_vars

\* The second call in a row was served the cached discovery result, found
\* the registry holding the list the first call had installed, and returned
\* without a change.
C36_Witness ==
    /\ procs[Main].n = 2 /\ procs[Main].op = "updateModels" /\ procs[Main].pc = "done"
    /\ procs[Main].outcome = "cached"
    /\ registry = procs[Main].avail
    /\ registry # DEFAULT_GEMINI_MODELS /\ registry # << >>
    /\ ~procs[Main].ret.settingsChanged

\* The part of a body up to and including its last blank line, and the
\* unterminated text after it.
LastBlankLine(body) ==
    LET ends == {k \in 2..Len(body) : body[k - 1] = NL /\ body[k] = NL}
    IN  IF ends = {} THEN 0 ELSE CHOOSE k \in ends : \A j \in ends : j <= k
TerminatedPart(body) == SubSeq(body, 1, LastBlankLine(body))
UnterminatedTail(body) == SubSeq(body, LastBlankLine(body) + 1, Len(body))

\* C37: when the transport has ended, the text after the last blank line is
\* still in the buffer, unparsed, and an uncancelled call is fulfilled with
\* what the terminated part of the body alone gives: the chunks delivered,
\* the markdown and the tool calls hold nothing of a final event that lacks
\* its blank line.
C37_UnterminatedTailDropped ==
    (sPc = "settled" /\ completion.state = "fulfilled" /\ ~cancelled /\ wire = << >>)
    => LET body == response.body
           kept == TerminatedPart(body)
       IN  /\ buffer = UnterminatedTail(body)
           /\ chunks = TextsOf(Arrived(kept))
           /\ completion.value.markdown = Concat(TextsOf(Arrived(kept)))
           /\ toolCallBuffer = AccumulateAll(<< >>, FragmentsOf(Arrived(kept)))
           /\ toolCalls = FinalizeToolCalls(toolCallBuffer)

\* The body ended with a read_file tool call event that lacks its blank line:
\* the call was fulfilled with the text and without that tool call.
C37_Witness ==
    /\ sPc = "settled" /\ completion.state = "fulfilled" /\ ~cancelled /\ wire = << >>
    /\ response.body = BodyCutTool
    /\ buffer = <<"data: ">> \o ToolReadWhole \o <<NL>>
    /\ chunks = <<"Hello ">>
    /\ toolCalls = [defined |-> TRUE,
                    calls |-> << [name |-> "search_files", arguments |-> EmptyObject] >>]

\* The line the loop body handles in this step carries a payload that is
\* not [DONE] and does not parse.
BadPayloadNext ==
    /\ sPc = "processing"
    /\ ~NoOpLine(Head(lines))
    /\ ~JsonParse(DataOf(Head(lines))).ok

\* C38: the step that handles an undecodable payload rejects the call, and
\* only such a step rejects it with the parser's error; it delivers no chunk
\* and drops the queued lines; the rejected call carries no result, its tool
\* calls stay undefined, and afterwards no line is handled, no read is
\* issued and no chunk is delivered.
C38_BadPayloadFailsCall ==
    [][/\ (sPc = "processing" /\ lines' # lines)
          => (BadPayloadNext <=> (completion'.state = "rejected"
                                  /\ completion'.error = "SyntaxError"))
       /\ (completion.state = "pending" /\ completion'.state = "rejected"
           /\ completion'.error = "SyntaxError")
          => /\ BadPayloadNext
             /\ sPc' = "settled"
             /\ lines' = << >>
             /\ chunks' = chunks /\ markdown' = markdown
             /\ toolCalls' = Undefined
             /\ DOMAIN completion' = {"state", "error"}
       /\ completion.state = "rejected"
          => UNCHANGED <<sPc, completion, chunks, markdown, lines, wire, buffer,
                         toolCallBuffer, toolCalls, httpAttempts>>]_vars

\* The second event of the body did not parse: the call was rejected after
\* the first chunk, with a tool-less, result-less completion and with the
\* rest of the body unread.
C38_Witness ==
    /\ completion = Rejected("SyntaxError") /\ sPc = "settled"
    /\ response.body = BodyBad
    /\ chunks = <<"Hello ">> /\ markdown = "Hello "
    /\ wire # << >>
    /\ toolCalls = Undefined

\* The distinct indices of the fragments, each at the place of its first
\* fragment.
RECURSIVE FirstSeen(_)
FirstSeen(frags) ==
    IF frags = << >> THEN << >>
    ELSE LET init == FirstSeen(SubSeq(frags, 1, Len(frags) - 1))
             last == IndexOf(frags[Len(frags)])
         IN  IF \E k \in DOMAIN init : init[k] = last THEN init ELSE Append(init, last)

\* The last id and the last name sent for an index, "" when none was.
LastOf(given, value(_)) ==
    IF given = {} THEN "" ELSE value(CHOOSE k \in given : \A j \in given : j <= k)
LastId(index, frags) ==
    LET id(k) == frags[k].id
    IN  LastOf({k \in DOMAIN frags : IndexOf(frags[k]) = index /\ frags[k].id # ""}, id)
LastName(index, frags) ==
    LET name(k) == frags[k].name
    IN  LastOf({k \in DOMAIN frags : IndexOf(frags[k]) = index /\ frags[k].name # ""}, name)

\* The calls of the indices in `order` that were sent a name.
RECURSIVE CallsInOrder(_, _)
CallsInOrder(order, frags) ==
    IF order = << >> THEN << >>
    ELSE (IF LastName(Head(order), frags) # ""
          THEN << [name |-> LastName(Head(order), frags),
                   arguments |-> ParseJson(WholeArguments(Head(order), frags))] >>
          ELSE << >>) \o CallsInOrder(Tail(order), frags)

\* C39: after a stream read to its end the buffer lists the indices in the
\* order of their first fragment, a fragment without an index counting for
\* index 0; each entry holds the last id and the last name sent for its
\* index and the concatenation of its arguments fragments; the finalized
\* calls are the named entries in that same order.
C39_FirstAppearanceOrder ==
    (completion.state = "fulfilled" /\ wire = << >>)
    => LET frags == FragmentsOf(Arrived(response.body))
           order == FirstSeen(frags)
       IN  /\ [k \in DOMAIN toolCallBuffer |-> toolCallBuffer[k].index] = order
           /\ \A k \in DOMAIN toolCallBuffer :
                 /\ toolCallBuffer[k].id = LastId(order[k], frags)
                 /\ toolCallBuffer[k].name = LastName(order[k], frags)
                 /\ toolCallBuffer[k].arguments = WholeArguments(order[k], frags)
           /\ frags # << >> => /\ toolCalls.defined
                               /\ toolCalls.calls = CallsInOrder(order, frags)
                               /\ completion.value.toolCalls = toolCalls.calls

\* Index 2 came before index 0 and is listed first; the fragment without an
\* index went to index 0, renamed the call and its id and finished its
\* arguments.
C39_Witness ==
    /\ completion.state = "fulfilled" /\ wire = << >> /\ response.body = BodyRename
    /\ toolCallBuffer = << ToolDelta(2, "call_2", "search_files", ""),
                           ToolDelta(0, "call_9", "list_files", "{\"n\":1}") >>
    /\ completion.value.toolCalls = << [name |-> "search_files", arguments |-> EmptyObject],
                                       [name |-> "list_files", arguments |-> [n |-> 1]] >>

(***************************************************************************)
(* The MCP servers section of the settings tab: the Add Server, Edit and   *)
(* Delete handlers over plugin.settings.mcpServers.  `settings` holds the  *)
(* list, `lastCall` the tab (the rows drawn by the last display() and the  *)
(* names the manager is connected to), `procs` the handlers in flight.     *)
(***************************************************************************)
ServerNames == {"a", "b"}

\* What a modal hands to its callback: an MCPServerConfig, of which the
\* handlers read name and enabled.
ServerConfigs == [name : ServerNames, enabled : BOOLEAN]
NoConfig == [name |-> "", enabled |-> FALSE]

\* The lists the tab is opened with.
InitialServers ==
    { << >>,
      << [name |-> "a", enabled |-> TRUE], [name |-> "b", enabled |-> FALSE] >> }

\* A handler: which button, where it is suspended, server.name of its row,
\* the config submitted, and how it ended.  A handler that has returned
\* keeps the config only when it was turned down (the Notice names it).
Handler(kind, pc, oldName, cfg, outcome) ==
    [kind |-> kind, pc |-> pc, oldName |-> oldName, config |-> cfg, outcome |-> outcome]
NoHandler == Handler("none", "idle", "", NoConfig, "")
Free(p) == procs[p].pc \in {"idle", "returned"}

NamesOf(servers) == [k \in DOMAIN servers |-> servers[k].name]

\* A duplicate test that never finds the name.
NameTaken_Never(servers, name) == FALSE

\* mcpServers.some((s) => s.name === name)
NameTaken(servers, name) == \E k \in DOMAIN servers : servers[k].name = name

\* mcpServers.findIndex((s) => s.name === name), 0 for -1
FindIndex(servers, name) ==
    IF NameTaken(servers, name)
    THEN CHOOSE k \in DOMAIN servers :
            /\ servers[k].name = name
            /\ \A j \in DOMAIN servers : servers[j].name = name => k <= j
    ELSE 0

\* mcpServers.filter((s) => s.name !== name)
RECURSIVE WithoutName(_, _)
WithoutName(servers, name) ==
    IF servers = << >> THEN << >>
    ELSE (IF Head(servers).name # name THEN <<Head(servers)>> ELSE << >>)
         \o WithoutName(Tail(servers), name)

Tab(rows, connected) == [fn |-> "mcpTab", rows |-> rows, connected |-> connected]

\* this.display(): one row per server of the list as it is now.
Display(servers, connected) == Tab(NamesOf(servers), connected)

McpFrame ==
    UNCHANGED <<now, apiKey, cache, durable, loader, fetchCount, enabled, registry, streamVars>>

\* Edit is clicked on a row: the modal opens on that server.
ClickEdit(p, k) ==
    /\ Free(p) /\ k \in DOMAIN lastCall.rows
    /\ procs' = [procs EXCEPT ![p] = Handler("edit", "modal", lastCall.rows[k], NoConfig, "")]
    /\ UNCHANGED <<settings, lastCall>>
    /\ McpFrame

\* Add Server is clicked: the modal opens on no server.
ClickAdd(p) ==
    /\ Free(p)
    /\ procs' = [procs EXCEPT ![p] = Handler("add", "modal", "", NoConfig, "")]
    /\ UNCHANGED <<settings, lastCall>>
    /\ McpFrame

\* The modal is closed without a submission.
CloseModal(p) ==
    /\ procs[p].pc = "modal"
    /\ procs' = [procs EXCEPT ![p] = Handler(procs[p].kind, "returned", "", NoConfig, "closed")]
    /\ UNCHANGED <<settings, lastCall>>
    /\ McpFrame

\* The Edit modal's callback, up to await saveSettings().
SubmitEdit(p, updated) ==
    /\ procs[p].kind = "edit" /\ procs[p].pc = "modal"
    /\ LET servers == settings.mcpServers
           oldName == procs[p].oldName
           idx == FindIndex(servers, oldName)
       IN  IF updated.name # oldName /\ NameTaken(servers, updated.name)
           THEN /\ procs' = [procs EXCEPT ![p] =
                                Handler("edit", "returned", "", updated, "exists")]
                /\ UNCHANGED settings
           ELSE /\ procs' = [procs EXCEPT ![p] = Handler("edit", "saving", oldName, updated, "")]
                /\ settings' = [mcpServers |-> IF idx # 0 THEN [servers EXCEPT ![idx] = updated]
                                               ELSE servers]
    /\ UNCHANGED lastCall
    /\ McpFrame

\* The Add modal's callback, up to await saveSettings().
SubmitAdd(p, cfg) ==
    /\ procs[p].kind = "add" /\ procs[p].pc = "modal"
    /\ LET servers == settings.mcpServers
       IN  IF NameTaken(servers, cfg.name)
           THEN /\ procs' = [procs EXCEPT ![p] = Handler("add", "returned", "", cfg, "exists")]
                /\ UNCHANGED settings
           ELSE /\ procs' = [procs EXCEPT ![p] = Handler("add", "saving", "", cfg, "")]
                /\ settings' = [mcpServers |-> Append(servers, cfg)]
    /\ UNCHANGED lastCall
    /\ McpFrame

\* Delete is clicked on a row: up to the first await, which is the
\* disconnect of a connected server and saveSettings() otherwise.
ClickDelete(p, k) ==
    /\ Free(p) /\ k \in DOMAIN lastCall.rows
    /\ LET name == lastCall.rows[k]
       IN  IF name \in lastCall.connected
           THEN /\ procs' = [procs EXCEPT ![p] =
                                Handler("delete", "disconnecting", name, NoConfig, "")]
                /\ UNCHANGED settings
           ELSE /\ procs' = [procs EXCEPT ![p] = Handler("delete", "saving", name, NoConfig, "")]
                /\ settings' = [mcpServers |-> WithoutName(settings.mcpServers, name)]
    /\ UNCHANGED lastCall
    /\ McpFrame

\* The handler's last statement, this.display(), and its return.
Redraw(p, connected) ==
    /\ procs' = [procs EXCEPT ![p] = Handler(procs[p].kind, "returned", "", NoConfig, "saved")]
    /\ lastCall' = Display(settings.mcpServers, connected)

\* await this.plugin.saveSettings() resolves.
SaveResolves(p) ==
    /\ procs[p].pc = "saving"
    /\ LET h == procs[p]
       IN  CASE h.kind = "edit" /\ h.oldName \in lastCall.connected ->
                   /\ procs' = [procs EXCEPT ![p].pc = "disconnecting"]
                   /\ UNCHANGED lastCall
             [] h.kind = "add" /\ h.config.enabled ->
                   /\ procs' = [procs EXCEPT ![p].pc = "connecting"]
                   /\ UNCHANGED lastCall
             [] OTHER -> Redraw(p, lastCall.connected)
    /\ UNCHANGED settings
    /\ McpFrame

\* await mcpManager.disconnectServer(name) resolves.
DisconnectResolves(p) ==
    /\ procs[p].pc = "disconnecting"
    /\ LET h == procs[p]
           connected == lastCall.connected \ {h.oldName}
       IN  CASE h.kind = "delete" ->
                   /\ procs' = [procs EXCEPT ![p].pc = "saving"]
                   /\ settings' = [mcpServers |-> WithoutName(settings.mcpServers, h.oldName)]
                   /\ lastCall' = [lastCall EXCEPT !.connected = connected]
             [] h.kind = "edit" /\ h.config.enabled ->
                   /\ procs' = [procs EXCEPT ![p].pc = "connecting"]
                   /\ lastCall' = [lastCall EXCEPT !.connected = connected]
                   /\ UNCHANGED settings
             [] OTHER -> Redraw(p, connected) /\ UNCHANGED settings
    /\ McpFrame

\* await mcpManager.connectServer(config) resolves, or rejects into the
\* handler's catch.
ConnectSettles(p, ok) ==
    /\ procs[p].pc = "connecting"
    /\ Redraw(p, IF ok THEN lastCall.connected \cup {procs[p].config.name}
                 ELSE lastCall.connected)
    /\ UNCHANGED settings
    /\ McpFrame

\* saveSettings() or disconnectServer() rejects: the handler ends there.
HandlerAwaitRejects(p) ==
    /\ procs[p].pc \in {"saving", "disconnecting"}
    /\ procs' = [procs EXCEPT ![p] = Handler(procs[p].kind, "returned", "", NoConfig, "threw")]
    /\ UNCHANGED <<settings, lastCall>>
    /\ McpFrame

InitMcp ==
    /\ now = 0 /\ apiKey = TRUE /\ cache = NoCache /\ durable = NoData /\ loader = NoData
    /\ fetchCount = 0 /\ enabled = TRUE /\ registry = DEFAULT_GEMINI_MODELS
    /\ StreamIdle
    /\ \E servers \in InitialServers :
          /\ settings = [mcpServers |-> servers]
          /\ lastCall = Display(servers, {servers[k].name :
                                             k \in {j \in DOMAIN servers : servers[j].enabled}})
    /\ procs = [p \in Callers |-> NoHandler]

NextMcp ==
    \/ \E p \in Callers : \E k \in 1..Cardinality(ServerNames) : ClickEdit(p, k)
    \/ \E p \in Callers : ClickAdd(p)
    \/ \E p \in Callers : CloseModal(p)
    \/ \E p \in Callers : \E updated \in ServerConfigs : SubmitEdit(p, updated)
    \/ \E p \in Callers : \E cfg \in ServerConfigs : SubmitAdd(p, cfg)
    \/ \E p \in Callers : \E k \in 1..Cardinality(ServerNames) : ClickDelete(p, k)
    \/ \E p \in Callers : SaveResolves(p)
    \/ \E p \in Callers : DisconnectResolves(p)
    \/ \E p \in Callers : \E ok \in BOOLEAN : ConnectSettles(p, ok)
    \/ \E p \in Callers : HandlerAwaitRejects(p)

SpecMcp == InitMcp /\ [][NextMcp]_vars

\* No two servers of the list share a name.
DistinctNames(servers) ==
    \A i, j \in DOMAIN servers : servers[i].name = servers[j].name => i = j

\* Handler p submits, in this step, a name another server of the list has:
\* an Add of a listed name, or an Edit that changes the name to a listed one.
SubmitsTakenName(p) ==
    /\ procs[p].pc = "modal" /\ procs'[p].pc # "modal" /\ procs'[p].outcome # "closed"
    /\ \E k \in DOMAIN settings.mcpServers :
          settings.mcpServers[k].name = procs'[p].config.name
    /\ procs[p].kind = "edit" => procs'[p].config.name # procs[p].oldName

\* C40: from a list with distinct names, the names stay distinct through
\* every interleaving of Add, Edit and Delete handlers; a submission of a
\* name that is taken ends the handler at once and leaves the list, the
\* connections and the rows as they were, and no other submission is
\* turned down.
C40_ServerNamesUnique ==
    /\ [](DistinctNames(settings.mcpServers))
    /\ [][\A p \in Callers :
             /\ SubmitsTakenName(p)
                => /\ procs'[p].pc = "returned" /\ procs'[p].outcome = "exists"
                   /\ settings' = settings /\ lastCall' = lastCall
             /\ (procs[p].pc = "modal" /\ procs'[p].outcome = "exists")
                => SubmitsTakenName(p)]_vars

\* The tab was opened on an empty list, two servers were added and
\* connected, and then an Edit renaming one to the other's name and an Add
\* of a listed name were both turned down.
C40_Witness ==
    /\ NamesOf(settings.mcpServers) = <<"b", "a">>
    /\ lastCall.connected = {"a", "b"}
    /\ procs["c1"].kind = "edit" /\ procs["c1"].outcome = "exists"
    /\ procs["c1"].config.name = "a"
    /\ procs["c2"].kind = "add" /\ procs["c2"].outcome = "exists"
    /\ procs["c2"].config.name = "b"

====
